---- MODULE Spec2Model ----
(***************************************************************************)
(* SegCraft: extraction, validation, one-shot repair and format limits of  *)
(* generative-model output (llm_client.py, schemas.py, content_source.py,  *)
(* tools/sync_from_text.py).                                               *)
(*                                                                         *)
(* Texts are sequences of one-character strings.  Three symbols stand for  *)
(* longer pieces of text:                                                  *)
(*   "F"   a run of three backticks (a Markdown fence),                    *)
(*   "j"   the word json (also used as ordinary prose),                    *)
(*   "J1".."J4"  the serialised members of a JSON object (well-formed,     *)
(*         braces and quotes balanced); MembersOf gives what they decode   *)
(*         to.                                                             *)
(* "\n" is the only whitespace character of the alphabet.                  *)
(***************************************************************************)
EXTENDS Integers, Sequences, FiniteSets, TLC

VARIABLES
    model_text,   \* extractor run: the raw text handed to the extractor
    extracted,    \* extractor run: what _extract_first_json_object did
    payload,      \* payload run: the decoded JSON object handed in
    validated,    \* payload run: what SegCraftResponse.model_validate did
    enforced,     \* payload run: what ensure_format_limits returned
    pc,           \* run_generation: the step it is at
    request,      \* run_generation: prompt_text, format_id, force_mock
    environment,  \* OPENAI_API_KEY is set; the openai package is installed
    samples,      \* the samples directory: file name -> its content
    requests,     \* the requests sent to the model provider, in order
    raw_text,     \* run_generation: the first round's raw text
    first_error,  \* run_generation: why the first round failed
    repaired_raw, \* run_generation: the repair round's raw text
    second_error, \* run_generation: why the repair round failed
    outcome,      \* run_generation: what it returned or raised
    shown,        \* app.py main: what the caller rendered, or what escaped it
    section_kind, \* parser run: the parser that reads the section
    section_text, \* parser run: the section's lines
    parsed_section, \* parser run: what the parser returned or raised
    text_source,  \* sync run: the lines of input_texts/text.txt
    sync_pc,      \* sync run: the step main() is at
    files,        \* sync run: the files written so far
    sync_error    \* sync run: the exception that ended main(), if any

extVars == <<model_text, extracted>>
payVars == <<payload, validated, enforced>>
genVars == <<pc, request, environment, samples, requests, raw_text,
             first_error, repaired_raw, second_error, outcome, shown>>
parseVars == <<section_kind, section_text, parsed_section>>
syncVars == <<text_source, sync_pc, files, sync_error>>
srcVars == <<section_kind, section_text, parsed_section,
             text_source, sync_pc, files, sync_error>>
vars == <<model_text, extracted, payload, validated, enforced,
          pc, request, environment, samples, requests, raw_text,
          first_error, repaired_raw, second_error, outcome, shown,
          section_kind, section_text, parsed_section,
          text_source, sync_pc, files, sync_error>>

----------------------------------------------------------------------------
(* Bounds *)

MaxTextLen == 5
MaxLen == 2        \* longest headline or body
MaxCopies == 2     \* most copies in a segment
MaxSegments == 2   \* most segments in a payload
MaxLimit == 2      \* largest headline_max or body_max
MaxLines == 4      \* most lines in a section handed to a parser
MaxFaulty == 2     \* most sections of the text source absent or blank

----------------------------------------------------------------------------
(* Characters and str methods *)

LBRACE == "{"
RBRACE == "}"
QUOTE == "\""
BACKSLASH == "\\"
NEWLINE == "\n"
FENCE == "F"
WORD == "j"

SPACE == " "
Whitespace == {NEWLINE, SPACE}
Backticks == {FENCE}
MemberTokens == {"J1", "J2", "J3", "J4"}

RECURSIVE lstrip(_, _)
lstrip(s, chars) ==
    IF Len(s) > 0 /\ Head(s) \in chars THEN lstrip(Tail(s), chars) ELSE s

RECURSIVE rstrip(_, _)
rstrip(s, chars) ==
    IF Len(s) > 0 /\ s[Len(s)] \in chars
    THEN rstrip(SubSeq(s, 1, Len(s) - 1), chars)
    ELSE s

\* str.strip(chars)
strip(s, chars) == rstrip(lstrip(s, chars), chars)

\* str.startswith(prefix)
startswith(s, prefix) ==
    Len(s) >= Len(prefix) /\ SubSeq(s, 1, Len(prefix)) = prefix

\* str.find(sub): the first 1-based position of sub in s, 0 when there is none
\* (Python's -1)
find(s, sub) ==
    LET hits == {i \in 1..(Len(s) - Len(sub) + 1) :
                    SubSeq(s, i, i + Len(sub) - 1) = sub}
    IN IF hits = {} THEN 0 ELSE CHOOSE i \in hits : \A k \in hits : i <= k

\* str.replace(old, "", 1)
replace_first(s, old) ==
    LET at == find(s, old)
    IN IF at = 0 THEN s
       ELSE SubSeq(s, 1, at - 1) \o SubSeq(s, at + Len(old), Len(s))

----------------------------------------------------------------------------
(* json.loads on the alphabet: a document is whitespace, one value,         *)
(* whitespace; the values the alphabet can spell are a string, the empty    *)
(* object and an object holding one member token.                           *)

json_step(st, c) ==
    CASE st = "start" ->
            IF c \in Whitespace THEN "start"
            ELSE IF c = QUOTE THEN "str"
            ELSE IF c = LBRACE THEN "obj"
            ELSE "bad"
      [] st = "str" ->
            IF c = QUOTE THEN "end_str"
            ELSE IF c = BACKSLASH THEN "esc"
            ELSE IF c \in Whitespace \/ c \in MemberTokens THEN "bad"
            ELSE "str"
      [] st = "esc" ->
            IF c = QUOTE \/ c = BACKSLASH THEN "str" ELSE "bad"
      [] st = "obj" ->
            IF c \in Whitespace THEN "obj"
            ELSE IF c = RBRACE THEN "end_empty"
            ELSE IF c \in MemberTokens THEN "members"
            ELSE "bad"
      [] st = "members" ->
            IF c \in Whitespace THEN "members"
            ELSE IF c = RBRACE THEN "end_obj"
            ELSE "bad"
      [] st \in {"end_str", "end_empty", "end_obj"} ->
            IF c \in Whitespace THEN st ELSE "bad"
      [] OTHER -> "bad"

RECURSIVE json_run(_, _, _)
json_run(text, index, st) ==
    IF index > Len(text) THEN st
    ELSE json_run(text, index + 1, json_step(st, text[index]))

\* json.loads(text): ok is FALSE for json.JSONDecodeError; kind is the Python
\* type of the decoded value and members the member token of a dict ("" for {}).
json_loads(text) ==
    LET st == json_run(text, 1, "start")
        toks == {i \in 1..Len(text) : text[i] \in MemberTokens}
    IN CASE st = "end_str" -> [ok |-> TRUE, kind |-> "str", members |-> ""]
         [] st = "end_empty" -> [ok |-> TRUE, kind |-> "dict", members |-> ""]
         [] st = "end_obj" ->
                [ok |-> TRUE, kind |-> "dict",
                 members |-> text[CHOOSE i \in toks : TRUE]]
         [] OTHER -> [ok |-> FALSE, kind |-> "JSONDecodeError", members |-> ""]

----------------------------------------------------------------------------
(* llm_client._extract_first_json_object *)

\* an exception: its class and what str() of it shows
LLMValidationError(msg) == [type |-> "LLMValidationError", msg |-> msg]
NoError == [type |-> "none"]

\* brace_scan without the in_string test: a brace inside a string counts
RECURSIVE brace_scan_counts_string_braces(_, _, _, _, _, _)
brace_scan_counts_string_braces(text, start, index, depth, in_string, escaped) ==
    IF index > Len(text)
    THEN [ok |-> FALSE, text |-> <<>>,
          error |-> LLMValidationError([kind |-> "incomplete_json"])]
    ELSE LET char == text[index] IN
         IF escaped
         THEN brace_scan_counts_string_braces(text, start, index + 1, depth, in_string, FALSE)
         ELSE IF char = BACKSLASH
         THEN brace_scan_counts_string_braces(text, start, index + 1, depth, in_string, TRUE)
         ELSE IF char = QUOTE
         THEN brace_scan_counts_string_braces(text, start, index + 1, depth, ~in_string, FALSE)
         ELSE IF char = LBRACE
         THEN brace_scan_counts_string_braces(text, start, index + 1, depth + 1, in_string, FALSE)
         ELSE IF char = RBRACE
         THEN IF depth - 1 = 0
              THEN [ok |-> TRUE, text |-> SubSeq(text, start, index),
                    error |-> NoError]
              ELSE brace_scan_counts_string_braces(text, start, index + 1, depth - 1, in_string, FALSE)
         ELSE brace_scan_counts_string_braces(text, start, index + 1, depth, in_string, FALSE)

RECURSIVE brace_scan(_, _, _, _, _, _)
brace_scan(text, start, index, depth, in_string, escaped) ==
    IF index > Len(text)
    THEN [ok |-> FALSE, text |-> <<>>,
          error |-> LLMValidationError([kind |-> "incomplete_json"])]
    ELSE LET char == text[index] IN
         IF escaped
         THEN brace_scan(text, start, index + 1, depth, in_string, FALSE)
         ELSE IF char = BACKSLASH
         THEN brace_scan(text, start, index + 1, depth, in_string, TRUE)
         ELSE IF char = QUOTE
         THEN brace_scan(text, start, index + 1, depth, ~in_string, FALSE)
         ELSE IF in_string
         THEN brace_scan(text, start, index + 1, depth, in_string, FALSE)
         ELSE IF char = LBRACE
         THEN brace_scan(text, start, index + 1, depth + 1, in_string, FALSE)
         ELSE IF char = RBRACE
         THEN IF depth - 1 = 0
              THEN [ok |-> TRUE, text |-> SubSeq(text, start, index),
                    error |-> NoError]
              ELSE brace_scan(text, start, index + 1, depth - 1, in_string, FALSE)
         ELSE brace_scan(text, start, index + 1, depth, in_string, FALSE)

\* lines 41-44: trim, and strip a fence and the first "json\n"
unfence(raw) ==
    LET text == strip(raw, Whitespace)
    IN IF startswith(text, <<FENCE>>)
       THEN strip(replace_first(strip(text, Backticks), <<WORD, NEWLINE>>),
                  Whitespace)
       ELSE text

\* _extract_first_json_object scanning before it tries the whole text
_extract_first_json_object_scan_first(raw) ==
    LET text == unfence(raw)
        start == find(text, <<LBRACE>>)
    IN IF start # 0
       THEN brace_scan(text, start, start, 0, FALSE, FALSE)
       ELSE IF json_loads(text).ok
       THEN [ok |-> TRUE, text |-> text, error |-> NoError]
       ELSE [ok |-> FALSE, text |-> <<>>,
             error |-> LLMValidationError([kind |-> "no_json_object"])]

_extract_first_json_object(raw) ==
    LET text == unfence(raw)
        start == find(text, <<LBRACE>>)
    IN IF json_loads(text).ok
       THEN [ok |-> TRUE, text |-> text, error |-> NoError]
       ELSE IF start = 0
       THEN [ok |-> FALSE, text |-> <<>>,
             error |-> LLMValidationError([kind |-> "no_json_object"])]
       ELSE brace_scan(text, start, start, 0, FALSE, FALSE)

----------------------------------------------------------------------------
(* Payloads: decoded JSON objects (Python dicts) as records; a key that the *)
(* dict lacks is a field the record lacks.  Only the fields that a rule of  *)
(* the schema or of the enforcer reads are kept: segment_name, base_text    *)
(* and the other free-text fields are left out.                             *)

\* dict.get(key, default)
Get(d, key, default) == IF key \in DOMAIN d THEN d[key] ELSE default

EmptyDict == <<>>

CopyDict(headline, body, n_headline, n_body) ==
    [headline |-> headline, body |-> body, cta |-> "cta", rationale |-> "why",
     char_count |-> [headline |-> n_headline, body |-> n_body]]

WithFlags(copy, flags) == copy @@ [risk_flags |-> flags]

SegmentDict(segment_id, copies) == [segment_id |-> segment_id, copies |-> copies]

EchoDict(tone, format_id, variants) ==
    [tone |-> tone, format_id |-> format_id, variants_per_segment |-> variants]

PayloadDict(version, echo, questions, segments) ==
    [version |-> version, input_echo |-> echo, questions |-> questions,
     segments |-> segments]

----------------------------------------------------------------------------
(* schemas.py *)

ToneLiteral == {"friendly", "neutral", "formal", "bold"}
PriorityLiteral == {"P0", "P1", "P2"}
MinVariants == 1
MaxVariants == 3
Digits == {"0", "1", "2"}

\* Field(pattern=r"^\d+\.\d+$")
version_matches(v) ==
    \E dot \in 2..(Len(v) - 1) :
        /\ v[dot] = "."
        /\ \A i \in (1..Len(v)) \ {dot} : v[i] \in Digits

ValidationError(msg) == [type |-> "ValidationError", msg |-> msg]

\* InputEcho: tone, format_id and variants_per_segment have no default
missing_echo_fields(d) ==
    IF "input_echo" \notin DOMAIN d THEN {}
    ELSE {"input_echo." \o k : k \in {"tone", "format_id", "variants_per_segment"}
                                    \ DOMAIN d.input_echo}

\* field_errors that also rejects a supplied count that differs from the length
field_errors_counts_must_match(d) ==
    LET echo == Get(d, "input_echo", EmptyDict)
        questions == Get(d, "questions", <<>>)
        segments == Get(d, "segments", <<>>)
    IN  {k \in {"version", "input_echo", "segments"} : k \notin DOMAIN d}
        \cup missing_echo_fields(d)
        \cup {k \in {"version"} : k \in DOMAIN d /\ ~version_matches(d.version)}
        \cup {k \in {"input_echo.tone"} :
                "tone" \in DOMAIN echo /\ echo.tone \notin ToneLiteral}
        \cup {k \in {"input_echo.variants_per_segment"} :
                /\ "variants_per_segment" \in DOMAIN echo
                /\ ~(/\ echo.variants_per_segment >= MinVariants
                     /\ echo.variants_per_segment <= MaxVariants)}
        \cup {k \in {"questions.priority"} :
                \E i \in 1..Len(questions) :
                    questions[i].priority \notin PriorityLiteral}
        \cup {k \in {"segments.copies.char_count.headline"} :
                \E i \in 1..Len(segments) :
                    \E n \in 1..Len(segments[i].copies) :
                        ~(segments[i].copies[n].char_count.headline >= 0)}
        \cup {k \in {"segments.copies.char_count.body"} :
                \E i \in 1..Len(segments) :
                    \E n \in 1..Len(segments[i].copies) :
                        ~(segments[i].copies[n].char_count.body >= 0)}
        \cup {k \in {"segments.copies.char_count"} :
                \E i \in 1..Len(segments) :
                    \E n \in 1..Len(segments[i].copies) :
                        \/ segments[i].copies[n].char_count.headline
                              # Len(segments[i].copies[n].headline)
                        \/ segments[i].copies[n].char_count.body
                              # Len(segments[i].copies[n].body)}

\* field_errors whose requested count may be one below the least
field_errors_from_zero(d) ==
    LET echo == Get(d, "input_echo", EmptyDict)
        questions == Get(d, "questions", <<>>)
        segments == Get(d, "segments", <<>>)
    IN  {k \in {"version", "input_echo", "segments"} : k \notin DOMAIN d}
        \cup missing_echo_fields(d)
        \cup {k \in {"version"} : k \in DOMAIN d /\ ~version_matches(d.version)}
        \cup {k \in {"input_echo.tone"} :
                "tone" \in DOMAIN echo /\ echo.tone \notin ToneLiteral}
        \cup {k \in {"input_echo.variants_per_segment"} :
                /\ "variants_per_segment" \in DOMAIN echo
                /\ ~(/\ echo.variants_per_segment >= MinVariants - 1
                     /\ echo.variants_per_segment <= MaxVariants)}
        \cup {k \in {"questions.priority"} :
                \E i \in 1..Len(questions) :
                    questions[i].priority \notin PriorityLiteral}
        \cup {k \in {"segments.copies.char_count.headline"} :
                \E i \in 1..Len(segments) :
                    \E n \in 1..Len(segments[i].copies) :
                        ~(segments[i].copies[n].char_count.headline >= 0)}
        \cup {k \in {"segments.copies.char_count.body"} :
                \E i \in 1..Len(segments) :
                    \E n \in 1..Len(segments[i].copies) :
                        ~(segments[i].copies[n].char_count.body >= 0)}

\* The constraints of the fields, each named by the place of the field it
\* rejects; pydantic reports all of them in one ValidationError.
field_errors(d) ==
    LET echo == Get(d, "input_echo", EmptyDict)
        questions == Get(d, "questions", <<>>)
        segments == Get(d, "segments", <<>>)
    IN  {k \in {"version", "input_echo", "segments"} : k \notin DOMAIN d}
        \cup missing_echo_fields(d)
        \cup {k \in {"version"} : k \in DOMAIN d /\ ~version_matches(d.version)}
        \cup {k \in {"input_echo.tone"} :
                "tone" \in DOMAIN echo /\ echo.tone \notin ToneLiteral}
        \cup {k \in {"input_echo.variants_per_segment"} :
                /\ "variants_per_segment" \in DOMAIN echo
                /\ ~(/\ echo.variants_per_segment >= MinVariants
                     /\ echo.variants_per_segment <= MaxVariants)}
        \cup {k \in {"questions.priority"} :
                \E i \in 1..Len(questions) :
                    questions[i].priority \notin PriorityLiteral}
        \cup {k \in {"segments.copies.char_count.headline"} :
                \E i \in 1..Len(segments) :
                    \E n \in 1..Len(segments[i].copies) :
                        ~(segments[i].copies[n].char_count.headline >= 0)}
        \cup {k \in {"segments.copies.char_count.body"} :
                \E i \in 1..Len(segments) :
                    \E n \in 1..Len(segments[i].copies) :
                        ~(segments[i].copies[n].char_count.body >= 0)}

\* CopyVariant.sync_char_count without the recomputation: the counts stay as given
sync_char_count_keeps_given(copy) ==
    [headline |-> copy.headline, body |-> copy.body,
     cta |-> copy.cta, rationale |-> copy.rationale,
     char_count |-> copy.char_count,
     risk_flags |-> Get(copy, "risk_flags", <<>>)]

\* CopyVariant: the risk_flags default and the sync_char_count validator
sync_char_count(copy) ==
    [headline |-> copy.headline, body |-> copy.body,
     cta |-> copy.cta, rationale |-> copy.rationale,
     char_count |-> [headline |-> Len(copy.headline), body |-> Len(copy.body)],
     risk_flags |-> Get(copy, "risk_flags", <<>>)]

\* the typed response built from a dict whose fields passed their constraints
build_response(d) ==
    [version |-> d.version,
     input_echo |-> d.input_echo,
     questions |-> Get(d, "questions", <<>>),
     segments |->
        [i \in 1..Len(d.segments) |->
            [segment_id |-> d.segments[i].segment_id,
             copies |-> [n \in 1..Len(d.segments[i].copies) |->
                            sync_char_count(d.segments[i].copies[n])]]]]

\* validate_lengths that accepts a segment with fewer copies than requested
validate_lengths_at_most(response) ==
    LET expected == response.input_echo.variants_per_segment
        bad == {i \in 1..Len(response.segments) :
                    Len(response.segments[i].copies) > expected}
    IN IF bad = {} THEN [ok |-> TRUE, value |-> response, error |-> NoError]
       ELSE LET first == CHOOSE i \in bad : \A k \in bad : i <= k
            IN [ok |-> FALSE, value |-> EmptyDict,
                error |-> ValidationError(
                    [kind |-> "value_error",
                     numbers |-> <<expected>>,
                     ids |-> <<response.segments[first].segment_id>>])]

\* validate_lengths that names the last segment whose count differs
validate_lengths_names_last(response) ==
    LET expected == response.input_echo.variants_per_segment
        bad == {i \in 1..Len(response.segments) :
                    Len(response.segments[i].copies) # expected}
    IN IF bad = {} THEN [ok |-> TRUE, value |-> response, error |-> NoError]
       ELSE LET last == CHOOSE i \in bad : \A k \in bad : i >= k
            IN [ok |-> FALSE, value |-> EmptyDict,
                error |-> ValidationError(
                    [kind |-> "value_error",
                     numbers |-> <<expected>>,
                     ids |-> <<response.segments[last].segment_id>>])]

\* SegCraftResponse.validate_lengths: the message holds the expected count
\* and the identifier of the first segment whose count differs
validate_lengths(response) ==
    LET expected == response.input_echo.variants_per_segment
        bad == {i \in 1..Len(response.segments) :
                    Len(response.segments[i].copies) # expected}
    IN IF bad = {} THEN [ok |-> TRUE, value |-> response, error |-> NoError]
       ELSE LET first == CHOOSE i \in bad : \A k \in bad : i <= k
            IN [ok |-> FALSE, value |-> EmptyDict,
                error |-> ValidationError(
                    [kind |-> "value_error",
                     numbers |-> <<expected>>,
                     ids |-> <<response.segments[first].segment_id>>])]

\* SegCraftResponse.model_validate(value), value as json_loads decodes it:
\* its Python type and, for a dict, the dict
model_validate(kind, d) ==
    IF kind # "dict"
    THEN [ok |-> FALSE, value |-> EmptyDict,
          error |-> ValidationError([kind |-> "model_type"])]
    ELSE IF field_errors(d) # {}
    THEN [ok |-> FALSE, value |-> EmptyDict,
          error |-> ValidationError([kind |-> "field_errors",
                                     locs |-> field_errors(d)])]
    ELSE validate_lengths(build_response(d))

----------------------------------------------------------------------------
(* content_source.py: the format-limit enforcer *)

\* s[:n]
slice_to(s, n) ==
    IF n >= 0 THEN SubSeq(s, 1, IF n < Len(s) THEN n ELSE Len(s))
    ELSE SubSeq(s, 1, IF Len(s) + n > 0 THEN Len(s) + n ELSE 0)

FormatOverflow == "format_overflow"

enforce_copy_counts(copy) ==
    [k \in DOMAIN copy \cup {"char_count", "risk_flags"} |->
        IF k = "char_count"
        THEN [headline |-> Len(Get(copy, "headline", <<>>)),
              body |-> Len(Get(copy, "body", <<>>))]
        ELSE IF k = "risk_flags" THEN Get(copy, "risk_flags", <<>>)
        ELSE copy[k]]

\* lines 231-240: both loops, every copy of every segment recounted
enforce_char_counts(d) ==
    IF "segments" \notin DOMAIN d THEN d
    ELSE [d EXCEPT !.segments =
            [i \in 1..Len(d.segments) |->
                IF "copies" \notin DOMAIN d.segments[i] THEN d.segments[i]
                ELSE [d.segments[i] EXCEPT !.copies =
                        [n \in 1..Len(d.segments[i].copies) |->
                            enforce_copy_counts(d.segments[i].copies[n])]]]]

\* limit_copy that also cuts a text whose length equals the maximum
limit_copy_at_least(copy, headline_max, body_max) ==
    LET headline == Get(copy, "headline", <<>>)
        body == Get(copy, "body", <<>>)
        cut_headline == Len(headline) >= headline_max
        cut_body == Len(body) >= body_max
        overflow == cut_headline \/ cut_body
    IN [k \in DOMAIN copy
            \cup (IF cut_headline THEN {"headline"} ELSE {})
            \cup (IF cut_body THEN {"body"} ELSE {})
            \cup (IF overflow THEN {"risk_flags"} ELSE {}) |->
        IF k = "headline" /\ cut_headline
        THEN rstrip(slice_to(headline, headline_max), Whitespace)
        ELSE IF k = "body" /\ cut_body
        THEN rstrip(slice_to(body, body_max), Whitespace)
        ELSE IF k = "risk_flags" /\ overflow
        THEN Append(Get(copy, "risk_flags", <<>>), FormatOverflow)
        ELSE copy[k]]

\* limit_copy without the rstrip() after the cut
limit_copy_keeps_trailing(copy, headline_max, body_max) ==
    LET headline == Get(copy, "headline", <<>>)
        body == Get(copy, "body", <<>>)
        cut_headline == Len(headline) > headline_max
        cut_body == Len(body) > body_max
        overflow == cut_headline \/ cut_body
    IN [k \in DOMAIN copy
            \cup (IF cut_headline THEN {"headline"} ELSE {})
            \cup (IF cut_body THEN {"body"} ELSE {})
            \cup (IF overflow THEN {"risk_flags"} ELSE {}) |->
        IF k = "headline" /\ cut_headline
        THEN slice_to(headline, headline_max)
        ELSE IF k = "body" /\ cut_body
        THEN slice_to(body, body_max)
        ELSE IF k = "risk_flags" /\ overflow
        THEN Append(Get(copy, "risk_flags", <<>>), FormatOverflow)
        ELSE copy[k]]

\* limit_copy that puts the new flag before the flags already present
limit_copy_flag_first(copy, headline_max, body_max) ==
    LET headline == Get(copy, "headline", <<>>)
        body == Get(copy, "body", <<>>)
        cut_headline == Len(headline) > headline_max
        cut_body == Len(body) > body_max
        overflow == cut_headline \/ cut_body
    IN [k \in DOMAIN copy
            \cup (IF cut_headline THEN {"headline"} ELSE {})
            \cup (IF cut_body THEN {"body"} ELSE {})
            \cup (IF overflow THEN {"risk_flags"} ELSE {}) |->
        IF k = "headline" /\ cut_headline
        THEN rstrip(slice_to(headline, headline_max), Whitespace)
        ELSE IF k = "body" /\ cut_body
        THEN rstrip(slice_to(body, body_max), Whitespace)
        ELSE IF k = "risk_flags" /\ overflow
        THEN <<FormatOverflow>> \o Get(copy, "risk_flags", <<>>)
        ELSE copy[k]]

\* lines 258-277: one copy under the limits
limit_copy(copy, headline_max, body_max) ==
    LET headline == Get(copy, "headline", <<>>)
        body == Get(copy, "body", <<>>)
        cut_headline == Len(headline) > headline_max
        cut_body == Len(body) > body_max
        overflow == cut_headline \/ cut_body
    IN [k \in DOMAIN copy
            \cup (IF cut_headline THEN {"headline"} ELSE {})
            \cup (IF cut_body THEN {"body"} ELSE {})
            \cup (IF overflow THEN {"risk_flags"} ELSE {}) |->
        IF k = "headline" /\ cut_headline
        THEN rstrip(slice_to(headline, headline_max), Whitespace)
        ELSE IF k = "body" /\ cut_body
        THEN rstrip(slice_to(body, body_max), Whitespace)
        ELSE IF k = "risk_flags" /\ overflow
        THEN Append(Get(copy, "risk_flags", <<>>), FormatOverflow)
        ELSE copy[k]]

\* lines 256-257: both loops, every copy of every segment under the limits
limit_copies(d, headline_max, body_max) ==
    IF "segments" \notin DOMAIN d THEN d
    ELSE [d EXCEPT !.segments =
            [i \in 1..Len(d.segments) |->
                IF "copies" \notin DOMAIN d.segments[i] THEN d.segments[i]
                ELSE [d.segments[i] EXCEPT !.copies =
                        [n \in 1..Len(d.segments[i].copies) |->
                            limit_copy(d.segments[i].copies[n],
                                       headline_max, body_max)]]]]

\* ensure_format_limits that recounts also when the format has no limits
ensure_format_limits_recounts_unknown(d, format_limits) ==
    LET format_id == Get(Get(d, "input_echo", EmptyDict), "format_id", "")
        limits == Get(format_limits, format_id, EmptyDict)
    IN IF limits = EmptyDict THEN enforce_char_counts(d)
       ELSE enforce_char_counts(
                limit_copies(d, limits.headline_max, limits.body_max))

\* ensure_format_limits that returns the payload without the final recount
ensure_format_limits_no_recount(d, format_limits) ==
    LET format_id == Get(Get(d, "input_echo", EmptyDict), "format_id", "")
        limits == Get(format_limits, format_id, EmptyDict)
    IN IF limits = EmptyDict THEN d
       ELSE limit_copies(d, limits.headline_max, limits.body_max)

\* format_limits: a dict from format id to {"headline_max", "body_max"}
ensure_format_limits(d, format_limits) ==
    LET format_id == Get(Get(d, "input_echo", EmptyDict), "format_id", "")
        limits == Get(format_limits, format_id, EmptyDict)
    IN IF limits = EmptyDict THEN d
       ELSE enforce_char_counts(
                limit_copies(d, limits.headline_max, limits.body_max))

----------------------------------------------------------------------------
(* content_source.py: the parsers of the text source.  A line is a sequence *)
(* of symbols: a keyword, a key name or a character each.  A block is the   *)
(* sequence of its lines (str.splitlines), a dict from str to str a         *)
(* function from keys to values, both sequences of symbols.                 *)

EQUALS == "="
HASH == "#"
SEMICOLON == ";"
PIPE == "|"
MINUS == "-"
DigitValue == [c \in {"0", "1", "2", "3", "4", "5", "6", "7", "8", "9"} |->
                  CASE c = "0" -> 0 [] c = "1" -> 1 [] c = "2" -> 2
                    [] c = "3" -> 3 [] c = "4" -> 4 [] c = "5" -> 5
                    [] c = "6" -> 6 [] c = "7" -> 7 [] c = "8" -> 8
                    [] OTHER -> 9]

ContentSourceError(msg) == [type |-> "ContentSourceError", msg |-> msg]
ValueError(msg) == [type |-> "ValueError", msg |-> msg]
TypeError(msg) == [type |-> "TypeError", msg |-> msg]

\* the value of a run of digits
RECURSIVE digits_value(_)
digits_value(s) ==
    IF s = <<>> THEN 0
    ELSE 10 * digits_value(SubSeq(s, 1, Len(s) - 1)) + DigitValue[s[Len(s)]]

\* int(text): surrounding whitespace, an optional minus sign, then digits;
\* anything else is a ValueError
int(text) ==
    LET trimmed == strip(text, Whitespace)
        negative == Len(trimmed) > 0 /\ trimmed[1] = MINUS
        digits == IF negative THEN Tail(trimmed) ELSE trimmed
    IN IF digits # <<>> /\ \A i \in 1..Len(digits) : digits[i] \in DOMAIN DigitValue
       THEN [ok |-> TRUE,
             value |-> IF negative THEN 0 - digits_value(digits)
                       ELSE digits_value(digits)]
       ELSE [ok |-> FALSE, value |-> 0]

\* str.split(sep): the pieces between the occurrences of the symbol sep
RECURSIVE split(_, _)
split(s, sep) ==
    LET at == find(s, <<sep>>)
    IN IF at = 0 THEN <<s>>
       ELSE <<SubSeq(s, 1, at - 1)>> \o split(SubSeq(s, at + 1, Len(s)), sep)

\* [item.strip() for item in items if item.strip()]
RECURSIVE stripped_items(_)
stripped_items(items) ==
    IF items = <<>> THEN <<>>
    ELSE LET item == strip(Head(items), Whitespace)
         IN (IF item = <<>> THEN <<>> ELSE <<item>>) \o stripped_items(Tail(items))

\* "\n".join(lines)
RECURSIVE join_lines(_)
join_lines(lines) ==
    IF lines = <<>> THEN <<>>
    ELSE IF Len(lines) = 1 THEN lines[1]
    ELSE lines[1] \o <<NEWLINE>> \o join_lines(Tail(lines))

\* str.splitlines(): the pieces between the line breaks, without an empty
\* piece after a final line break
splitlines(text) ==
    LET pieces == split(text, NEWLINE)
    IN IF pieces[Len(pieces)] = <<>>
       THEN SubSeq(pieces, 1, Len(pieces) - 1) ELSE pieces

\* lines 55-58: the line is blank, a comment, or holds no "="
skipped_line(stripped) == stripped = <<>> \/ startswith(stripped, <<HASH>>)

\* lines 53-60, the lines from index on, result being the dict so far
RECURSIVE parse_key_values_from(_, _, _)
parse_key_values_from(lines, index, result) ==
    IF index > Len(lines) THEN result
    ELSE LET stripped == strip(lines[index], Whitespace)
             at == find(stripped, <<EQUALS>>)
             key == strip(SubSeq(stripped, 1, at - 1), Whitespace)
             value == strip(SubSeq(stripped, at + 1, Len(stripped)), Whitespace)
         IN IF skipped_line(stripped) \/ at = 0
            THEN parse_key_values_from(lines, index + 1, result)
            ELSE parse_key_values_from(lines, index + 1,
                    [k \in DOMAIN result \cup {key} |->
                        IF k = key THEN value ELSE result[k]])

\* the lines read from the last to the first: the first occurrence wins
parse_key_values_first_wins(lines) ==
    parse_key_values_from([i \in 1..Len(lines) |-> lines[Len(lines) + 1 - i]],
                          1, EmptyDict)

parse_key_values(lines) == parse_key_values_from(lines, 1, EmptyDict)

\* content_source.py lines 199-207: the keys written, in order
SAMPLE_INPUT_KEYS ==
    <<"title", "base_text", "product_context", "selected_segments", "tone",
      "format_id", "variants_per_segment", "variability_level", "constraints">>

\* build_sample_input_text writing "key value" lines
build_sample_input_text_spaced(kv) ==
    join_lines([i \in DOMAIN SAMPLE_INPUT_KEYS |->
                  <<SAMPLE_INPUT_KEYS[i], SPACE>>
                  \o Get(kv, <<SAMPLE_INPUT_KEYS[i]>>, <<>>)])
    \o <<NEWLINE>>

\* content_source.py lines 197-209
build_sample_input_text(kv) ==
    join_lines([i \in DOMAIN SAMPLE_INPUT_KEYS |->
                  <<SAMPLE_INPUT_KEYS[i], EQUALS>>
                  \o Get(kv, <<SAMPLE_INPUT_KEYS[i]>>, <<>>)])
    \o <<NEWLINE>>

split_semicolon_list(raw_value) ==
    IF raw_value = <<>> THEN <<>>
    ELSE stripped_items(split(raw_value, SEMICOLON))

\* lines 85-101: the record of one segment; who, tone_hint and cta_style are
\* read as name is, triggers, taboos and example_offer_adaptations as pains
segment_record(buffer) ==
    LET kv == parse_key_values(buffer)
    IN [segment_id |-> Get(kv, <<"id">>, <<>>),
        name |-> Get(kv, <<"name">>, <<>>),
        job_to_be_done |-> Get(kv, <<"job">>, Get(kv, <<"job_to_be_done">>, <<>>)),
        pains |-> split_semicolon_list(Get(kv, <<"pains">>, <<>>))]

\* parse_segments_from that emits a record at every END line
RECURSIVE parse_segments_from_every_end(_, _, _, _, _)
parse_segments_from_every_end(lines, index, segments, buffer, in_segment) ==
    IF index > Len(lines) THEN segments
    ELSE LET stripped == strip(lines[index], Whitespace)
         IN IF skipped_line(stripped)
            THEN parse_segments_from_every_end(lines, index + 1, segments, buffer, in_segment)
            ELSE IF stripped = <<"SEGMENT">>
            THEN parse_segments_from_every_end(lines, index + 1, segments, <<>>, TRUE)
            ELSE IF stripped = <<"END">>
            THEN parse_segments_from_every_end(lines, index + 1,
                    Append(segments, segment_record(buffer)),
                    <<>>, FALSE)
            ELSE IF in_segment
            THEN parse_segments_from_every_end(lines, index + 1, segments,
                                     Append(buffer, stripped), in_segment)
            ELSE parse_segments_from_every_end(lines, index + 1, segments, buffer, in_segment)

\* parse_segments_from that emits the record still open at the end
RECURSIVE parse_segments_from_flushing(_, _, _, _, _)
parse_segments_from_flushing(lines, index, segments, buffer, in_segment) ==
    IF index > Len(lines)
    THEN IF in_segment THEN Append(segments, segment_record(buffer)) ELSE segments
    ELSE LET stripped == strip(lines[index], Whitespace)
         IN IF skipped_line(stripped)
            THEN parse_segments_from_flushing(lines, index + 1, segments, buffer, in_segment)
            ELSE IF stripped = <<"SEGMENT">>
            THEN parse_segments_from_flushing(lines, index + 1, segments, <<>>, TRUE)
            ELSE IF stripped = <<"END">>
            THEN parse_segments_from_flushing(lines, index + 1,
                    IF in_segment THEN Append(segments, segment_record(buffer))
                    ELSE segments,
                    <<>>, FALSE)
            ELSE IF in_segment
            THEN parse_segments_from_flushing(lines, index + 1, segments,
                                     Append(buffer, stripped), in_segment)
            ELSE parse_segments_from_flushing(lines, index + 1, segments, buffer, in_segment)

\* parse_segments_from whose open keyword keeps the lines already buffered
RECURSIVE parse_segments_from_keeping(_, _, _, _, _)
parse_segments_from_keeping(lines, index, segments, buffer, in_segment) ==
    IF index > Len(lines) THEN segments
    ELSE LET stripped == strip(lines[index], Whitespace)
         IN IF skipped_line(stripped)
            THEN parse_segments_from_keeping(lines, index + 1, segments, buffer, in_segment)
            ELSE IF stripped = <<"SEGMENT">>
            THEN parse_segments_from_keeping(lines, index + 1, segments, buffer, TRUE)
            ELSE IF stripped = <<"END">>
            THEN parse_segments_from_keeping(lines, index + 1,
                    IF in_segment THEN Append(segments, segment_record(buffer))
                    ELSE segments,
                    <<>>, FALSE)
            ELSE IF in_segment
            THEN parse_segments_from_keeping(lines, index + 1, segments,
                                     Append(buffer, stripped), in_segment)
            ELSE parse_segments_from_keeping(lines, index + 1, segments, buffer, in_segment)

\* lines 75-106, the lines from index on
RECURSIVE parse_segments_from(_, _, _, _, _)
parse_segments_from(lines, index, segments, buffer, in_segment) ==
    IF index > Len(lines) THEN segments
    ELSE LET stripped == strip(lines[index], Whitespace)
         IN IF skipped_line(stripped)
            THEN parse_segments_from(lines, index + 1, segments, buffer, in_segment)
            ELSE IF stripped = <<"SEGMENT">>
            THEN parse_segments_from(lines, index + 1, segments, <<>>, TRUE)
            ELSE IF stripped = <<"END">>
            THEN parse_segments_from(lines, index + 1,
                    IF in_segment THEN Append(segments, segment_record(buffer))
                    ELSE segments,
                    <<>>, FALSE)
            ELSE IF in_segment
            THEN parse_segments_from(lines, index + 1, segments,
                                     Append(buffer, stripped), in_segment)
            ELSE parse_segments_from(lines, index + 1, segments, buffer, in_segment)

parse_segments(section) ==
    [ok |-> TRUE, value |-> parse_segments_from(section, 1, <<>>, <<>>, FALSE),
     error |-> NoError]

\* format_record that takes a maximum that is not a number for 0
format_record_lenient(buffer) ==
    LET kv == parse_key_values(buffer)
        headline_max == int(Get(kv, <<"headline_max">>, <<"0">>))
        body_max == int(Get(kv, <<"body_max">>, <<"0">>))
    IN [ok |-> TRUE,
        value |-> [format_id |-> Get(kv, <<"id">>, <<>>),
                   name |-> Get(kv, <<"name">>, <<>>),
                   limits |-> [headline_max |-> headline_max.value,
                               body_max |-> body_max.value]]]

\* lines 126-143: the record of one format, or the ValueError of int()
format_record(buffer) ==
    LET kv == parse_key_values(buffer)
        headline_max == int(Get(kv, <<"headline_max">>, <<"0">>))
        body_max == int(Get(kv, <<"body_max">>, <<"0">>))
    IN IF ~headline_max.ok
       THEN [ok |-> FALSE, error |-> ValueError([kind |-> "int", of |-> "headline_max"])]
       ELSE IF ~body_max.ok
       THEN [ok |-> FALSE, error |-> ValueError([kind |-> "int", of |-> "body_max"])]
       ELSE [ok |-> TRUE,
             value |-> [format_id |-> Get(kv, <<"id">>, <<>>),
                        name |-> Get(kv, <<"name">>, <<>>),
                        limits |-> [headline_max |-> headline_max.value,
                                    body_max |-> body_max.value]]]

\* lines 116-148, the lines from index on
RECURSIVE parse_formats_from(_, _, _, _, _)
parse_formats_from(lines, index, formats, buffer, in_format) ==
    IF index > Len(lines)
    THEN [ok |-> TRUE, value |-> formats, error |-> NoError]
    ELSE LET stripped == strip(lines[index], Whitespace)
         IN IF skipped_line(stripped)
            THEN parse_formats_from(lines, index + 1, formats, buffer, in_format)
            ELSE IF stripped = <<"FORMAT">>
            THEN parse_formats_from(lines, index + 1, formats, <<>>, TRUE)
            ELSE IF stripped = <<"END">>
            THEN IF in_format /\ ~format_record(buffer).ok
                 THEN [ok |-> FALSE, value |-> <<>>,
                       error |-> format_record(buffer).error]
                 ELSE parse_formats_from(lines, index + 1,
                        IF in_format
                        THEN Append(formats, format_record(buffer).value)
                        ELSE formats,
                        <<>>, FALSE)
            ELSE IF in_format
            THEN parse_formats_from(lines, index + 1, formats,
                                    Append(buffer, stripped), in_format)
            ELSE parse_formats_from(lines, index + 1, formats, buffer, in_format)

parse_formats(section) == parse_formats_from(section, 1, <<>>, <<>>, FALSE)

\* The values of a slide dict: an int, a str or a list of str.
IntVal(n) == [type |-> "int", int |-> n, str |-> <<>>, list |-> <<>>]
StrVal(text) == [type |-> "str", int |-> 0, str |-> text, list |-> <<>>]
ListVal(items) == [type |-> "list", int |-> 0, str |-> <<>>, list |-> items]

NUMBER == <<"number">>
BULLETS == <<"bullets">>

\* ord(c) of the characters a number can be spelled with
ord(c) ==
    CASE c = SPACE -> 32 [] c = MINUS -> 45 [] c = "x" -> 120
      [] c \in DOMAIN DigitValue -> 48 + DigitValue[c]
      [] OTHER -> 127

\* a < b on str
RECURSIVE str_less(_, _)
str_less(a, b) ==
    IF b = <<>> THEN FALSE
    ELSE IF a = <<>> THEN TRUE
    ELSE IF Head(a) = Head(b) THEN str_less(Tail(a), Tail(b))
    ELSE ord(Head(a)) < ord(Head(b))

\* a < b on the sort keys of two slides of the same type
key_less(a, b) ==
    IF a.type = "int" THEN a.int < b.int ELSE str_less(a.str, b.str)

\* one step of a stable sort: slide goes behind every slide that it is not
\* smaller than
RECURSIVE insert_slide(_, _)
insert_slide(sorted, slide) ==
    IF sorted = <<>> THEN <<slide>>
    ELSE IF key_less(slide[NUMBER], Head(sorted)[NUMBER])
    THEN <<slide>> \o sorted
    ELSE <<Head(sorted)>> \o insert_slide(Tail(sorted), slide)

RECURSIVE sorted_slides(_)
sorted_slides(slides) ==
    IF slides = <<>> THEN <<>>
    ELSE insert_slide(sorted_slides(SubSeq(slides, 1, Len(slides) - 1)),
                      slides[Len(slides)])

\* line 184: list.sort(key=number) is stable and raises TypeError when it
\* compares an int with a str
sort_by_number(slides) ==
    IF Cardinality({slides[i][NUMBER].type : i \in 1..Len(slides)}) > 1
    THEN [ok |-> FALSE, value |-> <<>>,
          error |-> TypeError([kind |-> "int_str_compare"])]
    ELSE [ok |-> TRUE, value |-> sorted_slides(slides), error |-> NoError]

\* lines 173-179: current[key] = value, the bullets split on "|"
slide_with(current, stripped) ==
    LET at == find(stripped, <<EQUALS>>)
        key == strip(SubSeq(stripped, 1, at - 1), Whitespace)
        value == strip(SubSeq(stripped, at + 1, Len(stripped)), Whitespace)
        item == IF key = BULLETS THEN ListVal(stripped_items(split(value, PIPE)))
                ELSE StrVal(value)
    IN [k \in DOMAIN current \cup {key} |-> IF k = key THEN item ELSE current[k]]

\* lines 157-185, the lines from index on; is_open is "current is not None"
RECURSIVE parse_slides_from(_, _, _, _, _)
parse_slides_from(lines, index, slides, current, is_open) ==
    IF index > Len(lines)
    THEN sort_by_number(IF is_open THEN Append(slides, current) ELSE slides)
    ELSE LET stripped == strip(lines[index], Whitespace)
             slide_number == int(SubSeq(stripped, 3, Len(stripped)))
         IN IF skipped_line(stripped)
            THEN parse_slides_from(lines, index + 1, slides, current, is_open)
            ELSE IF startswith(stripped, <<"SLIDE", SPACE>>)
            THEN IF ~slide_number.ok
                 THEN [ok |-> FALSE, value |-> <<>>,
                       error |-> ContentSourceError(
                                    [kind |-> "slide_number", line |-> stripped])]
                 ELSE parse_slides_from(lines, index + 1,
                        IF is_open THEN Append(slides, current) ELSE slides,
                        [k \in {NUMBER} |-> IntVal(slide_number.value)], TRUE)
            ELSE IF ~is_open \/ find(stripped, <<EQUALS>>) = 0
            THEN parse_slides_from(lines, index + 1, slides, current, is_open)
            ELSE parse_slides_from(lines, index + 1, slides,
                                   slide_with(current, stripped), is_open)

parse_slides(section) ==
    parse_slides_from(section, 1, <<>>, [k \in {} |-> IntVal(0)], FALSE)

----------------------------------------------------------------------------
(* content_source.py: the section splitter.  A tag line is "[", a section   *)
(* name, "]"; the names the alphabet can spell are the required ones.       *)

REQUIRED_SECTIONS ==
    <<"PROJECT_META", "DEFAULT_SEGMENTS", "AD_FORMATS", "SAMPLE_INPUT_1",
      "SAMPLE_INPUT_2", "SAMPLE_OUTPUT_1_JSON", "SAMPLE_OUTPUT_2_JSON",
      "DEMO_SCRIPT", "SLIDES", "SUBMISSION_ANSWERS_MD", "PITCH_1PAGER_MD">>

\* SECTION_PATTERN on the stripped line: the name it captures, "" for no match
section_name(line) ==
    LET stripped == strip(line, Whitespace)
    IN IF /\ Len(stripped) = 3
          /\ stripped[1] = "[" /\ stripped[3] = "]"
          /\ \E i \in DOMAIN REQUIRED_SECTIONS : stripped[2] = REQUIRED_SECTIONS[i]
       THEN stripped[2] ELSE ""

\* "\n".join(lines).strip(), as lines again
RECURSIVE lstrip_lines(_)
lstrip_lines(lines) ==
    IF lines = <<>> THEN <<>>
    ELSE IF strip(Head(lines), Whitespace) = <<>> THEN lstrip_lines(Tail(lines))
    ELSE <<lstrip(Head(lines), Whitespace)>> \o Tail(lines)

RECURSIVE rstrip_lines(_)
rstrip_lines(lines) ==
    IF lines = <<>> THEN <<>>
    ELSE IF strip(lines[Len(lines)], Whitespace) = <<>>
    THEN rstrip_lines(SubSeq(lines, 1, Len(lines) - 1))
    ELSE SubSeq(lines, 1, Len(lines) - 1)
         \o <<rstrip(lines[Len(lines)], Whitespace)>>

strip_lines(lines) == rstrip_lines(lstrip_lines(lines))

\* set_item that leaves a key it finds as it is
set_item_keeping(items, name, value) ==
    IF \E i \in DOMAIN items : items[i].name = name
    THEN items
    ELSE Append(items, [name |-> name, lines |-> value])

\* a dict from section name to list of lines, in insertion order:
\* sections[name] = value
set_item(items, name, value) ==
    IF \E i \in DOMAIN items : items[i].name = name
    THEN LET i == CHOOSE i \in DOMAIN items : items[i].name = name
         IN [items EXCEPT ![i] = [name |-> name, lines |-> value]]
    ELSE Append(items, [name |-> name, lines |-> value])

\* sections[name].append(line)
append_item(items, name, line) ==
    LET i == CHOOSE i \in DOMAIN items : items[i].name = name
    IN [items EXCEPT ![i] = [name |-> name, lines |-> Append(@.lines, line)]]

\* content_source.py lines 29-36, the lines from index on; state holds
\* sections and current, "" for None
RECURSIVE parse_sections_from(_, _, _)
parse_sections_from(lines, index, state) ==
    IF index > Len(lines) THEN state.sections
    ELSE LET name == section_name(lines[index])
         IN IF name # ""
            THEN parse_sections_from(lines, index + 1,
                    [sections |-> set_item(state.sections, name, <<>>),
                     current |-> name])
            ELSE IF state.current # ""
            THEN parse_sections_from(lines, index + 1,
                    [sections |-> append_item(state.sections, state.current,
                                              lines[index]),
                     current |-> state.current])
            ELSE parse_sections_from(lines, index + 1, state)

\* content_source.py lines 25-38
parse_sections(lines) ==
    LET items == parse_sections_from(lines, 1, [sections |-> <<>>, current |-> ""])
    IN [name \in {items[i].name : i \in DOMAIN items} |->
          strip_lines(items[CHOOSE i \in DOMAIN items : items[i].name = name].lines)]

----------------------------------------------------------------------------
(* Extractor runs: every text over the alphabet up to MaxTextLen, and every *)
(* text over the scanner's own characters one longer.                       *)

Alphabet == {LBRACE, RBRACE, QUOTE, BACKSLASH, WORD, NEWLINE, FENCE}
ScanAlphabet == {LBRACE, RBRACE, QUOTE, BACKSLASH, WORD}

SeqsUpTo(S, n) == UNION {[1..k -> S] : k \in 0..n}

Texts == SeqsUpTo(Alphabet, MaxTextLen) \cup [1..(MaxTextLen + 1) -> ScanAlphabet]

IdleExtract == model_text = <<>> /\ extracted = [status |-> "idle"]
IdlePayload ==
    /\ payload = EmptyDict
    /\ validated = [status |-> "idle"]
    /\ enforced = [status |-> "idle"]

IdleGeneration ==
    /\ pc = "Off"
    /\ request = EmptyDict
    /\ environment = EmptyDict
    /\ samples = EmptyDict
    /\ requests = <<>>
    /\ raw_text = <<>>
    /\ first_error = NoError
    /\ repaired_raw = <<>>
    /\ second_error = NoError
    /\ outcome = [status |-> "none"]
    /\ shown = [status |-> "none"]

IdleParse ==
    /\ section_kind = "none"
    /\ section_text = <<>>
    /\ parsed_section = [status |-> "idle"]

IdleSync ==
    /\ text_source = <<>>
    /\ sync_pc = "Off"
    /\ files = {}
    /\ sync_error = NoError

InitExtract ==
    /\ model_text \in Texts
    /\ extracted = [status |-> "pending"]
    /\ IdlePayload
    /\ IdleGeneration
    /\ IdleParse
    /\ IdleSync

Extract ==
    /\ extracted.status = "pending"
    /\ extracted' = [status |-> "done"] @@ _extract_first_json_object(model_text)
    /\ UNCHANGED <<model_text, payVars, genVars, srcVars>>

NextExtract == Extract

SpecExtract == InitExtract /\ [][NextExtract]_vars

----------------------------------------------------------------------------
(* The brace scan, stated by counting instead of by scanning.               *)

\* the character at i directly follows a backslash that was not itself skipped
RECURSIVE Skipped(_, _, _)
Skipped(t, s, i) == i > s /\ t[i - 1] = BACKSLASH /\ ~Skipped(t, s, i - 1)

\* an odd number of quotes that were read as quotes lies between s and i
InsideString(t, s, i) ==
    Cardinality({k \in s..(i - 1) :
                    t[k] = QUOTE /\ ~Skipped(t, s, k)}) % 2 = 1

Structural(t, s, i, c) == t[i] = c /\ ~Skipped(t, s, i) /\ ~InsideString(t, s, i)

DepthAfter(t, s, i) ==
    Cardinality({k \in s..i : Structural(t, s, k, LBRACE)})
        - Cardinality({k \in s..i : Structural(t, s, k, RBRACE)})

Closers(t, s) ==
    {i \in s..Len(t) : Structural(t, s, i, RBRACE) /\ DepthAfter(t, s, i) = 0}

\* The same with a backslash escaping only inside a string: the state in
\* which the character at i is read.
RECURSIVE StringMode(_, _, _)
StringMode(t, s, i) ==
    IF i <= s THEN "out"
    ELSE LET m == StringMode(t, s, i - 1)
             c == t[i - 1]
         IN CASE m = "out" -> IF c = QUOTE THEN "in" ELSE "out"
              [] m = "in" -> IF c = BACKSLASH THEN "in_escaped"
                             ELSE IF c = QUOTE THEN "out" ELSE "in"
              [] OTHER -> "in"

StringOnlyStructural(t, s, i, c) == t[i] = c /\ StringMode(t, s, i) = "out"

StringOnlyDepthAfter(t, s, i) ==
    Cardinality({k \in s..i : StringOnlyStructural(t, s, k, LBRACE)})
        - Cardinality({k \in s..i : StringOnlyStructural(t, s, k, RBRACE)})

StringOnlyClosers(t, s) ==
    {i \in s..Len(t) :
        StringOnlyStructural(t, s, i, RBRACE) /\ StringOnlyDepthAfter(t, s, i) = 0}

Least(S) == CHOOSE i \in S : \A k \in S : i <= k

\* the extractor ran on a text that is not valid JSON as a whole and holds a {
ScannedText == unfence(model_text)
ScanStart == find(ScannedText, <<LBRACE>>)
Scanned ==
    /\ extracted.status = "done"
    /\ ~json_loads(ScannedText).ok
    /\ ScanStart > 0

\* C10 as stated: the result runs from the first { to the } that brings the
\* depth back to zero, where only braces inside a double-quoted string are not
\* counted and only a backslash inside a string escapes the next character.
C10_AsStated ==
    (Scanned /\ StringOnlyClosers(ScannedText, ScanStart) # {}) =>
        /\ extracted.ok
        /\ extracted.text =
              SubSeq(ScannedText, ScanStart,
                     Least(StringOnlyClosers(ScannedText, ScanStart)))

\* C10 amended: when the whole text is not valid JSON, the result is the
\* substring from the first { to the first } that brings the depth back to
\* zero, where the character after a backslash is skipped wherever the
\* backslash stands (inside a string or outside), a quote that is not skipped
\* toggles the string state, and a brace inside a string does not change the
\* depth; the text before the { and after that } is dropped.
C10_BraceScan ==
    (Scanned /\ Closers(ScannedText, ScanStart) # {}) =>
        /\ extracted.ok
        /\ extracted.text =
              SubSeq(ScannedText, ScanStart,
                     Least(Closers(ScannedText, ScanStart)))

\* prose, then an object whose string holds a }: the object alone comes back
C10_Witness ==
    /\ extracted.status = "done"
    /\ model_text = <<WORD, LBRACE, QUOTE, RBRACE, QUOTE, RBRACE>>
    /\ extracted.ok
    /\ extracted.text = <<LBRACE, QUOTE, RBRACE, QUOTE, RBRACE>>

\* C11 as stated: whenever the extractor returns a value, the returned text
\* begins with {, ends with } and decodes to a JSON object, never to a
\* string or another JSON value, also when the whole text parses as JSON.
C11_AsStated ==
    (extracted.status = "done" /\ extracted.ok) =>
        /\ Len(extracted.text) >= 2
        /\ extracted.text[1] = LBRACE
        /\ extracted.text[Len(extracted.text)] = RBRACE
        /\ json_loads(extracted.text).ok
        /\ json_loads(extracted.text).kind = "dict"

----------------------------------------------------------------------------
(* Payload runs: one call of model_validate, or one call of                 *)
(* ensure_format_limits, on a payload.                                      *)

CopyChars == {"a", SPACE}
KnownFormat == "yadirect_text"
OtherFormat == "vk_post"
FormatIds == {KnownFormat, OtherFormat}
Version10 == <<"1", ".", "0">>
VersionVals == {Version10, <<"1">>, <<"1", ".", "0", ".", "2">>, <<".", "1">>}
SegmentIds == <<"s1", "s2", "s3", "s4">>
CountVals == {-1, 0, 1, 7}

DefaultCopy == WithFlags(CopyDict(<<"a", "a">>, <<"a">>, 2, 1), <<>>)

\* copies whose supplied counts are anything
CountCopies ==
    {CopyDict(h, b, nh, nb) :
        h \in SeqsUpTo({"a"}, MaxLen), b \in SeqsUpTo({"a"}, MaxLen),
        nh \in CountVals, nb \in CountVals}

\* copies whose texts are anything: without a risk_flags key and with zeroed
\* counts, with no flag and exact counts, with a flag and zeroed counts
TextCopies ==
    LET texts == SeqsUpTo(CopyChars, MaxLen)
    IN {CopyDict(h, b, 0, 0) : h \in texts, b \in texts}
       \cup {WithFlags(CopyDict(h, b, Len(h), Len(b)), <<>>) :
                h \in texts, b \in texts}
       \cup {WithFlags(CopyDict(h, b, 0, 0), <<"vague_offer">>) :
                h \in texts, b \in texts}

\* one segment of MaxCopies copies, all the default copy but one
ProbePayloads ==
    {PayloadDict(Version10, EchoDict("neutral", KnownFormat, MaxCopies), <<>>,
        <<SegmentDict(SegmentIds[1],
            [n \in 1..MaxCopies |-> IF n = pos THEN probe ELSE DefaultCopy])>>) :
        pos \in 1..MaxCopies, probe \in CountCopies \cup TextCopies}

\* any number of segments with any numbers of default copies, under any
\* requested count, tone, version and question priority
StructurePayloads ==
    LET shapes == SeqsUpTo(0..MaxCopies, MaxSegments)
        segments(shape) ==
            [i \in 1..Len(shape) |->
                SegmentDict(SegmentIds[i], [n \in 1..shape[i] |-> DefaultCopy])]
    IN {PayloadDict(v, EchoDict(tone, KnownFormat, k), q, segments(shape)) :
            v \in VersionVals, tone \in {"neutral", "angry"},
            k \in (MinVariants - 1)..(MaxVariants + 1),
            q \in {<<>>, <<[priority |-> "P0"]>>, <<[priority |-> "P3"]>>},
            shape \in shapes}
       \cup {PayloadDict(Version10, EchoDict("neutral", KnownFormat, k), <<>>,
                         segments(<<n>>)) :
                k \in (MinVariants - 1)..(MaxVariants + 1),
                n \in MinVariants..MaxVariants}

\* one segment of MaxCopies equal copies of any texts, the echo holding no
\* format_id
NoFormatPayloads ==
    {PayloadDict(Version10,
                 [tone |-> "neutral", variants_per_segment |-> MaxCopies], <<>>,
                 <<SegmentDict(SegmentIds[1], [n \in 1..MaxCopies |-> probe])>>) :
        probe \in TextCopies}

Payloads == ProbePayloads \cup StructurePayloads \cup NoFormatPayloads

\* the limits of a format record whose id line is missing: its format_id
\* is the empty string
NoIdLimits == [id \in {""} |-> [headline_max |-> 1, body_max |-> 1]]

\* a formats catalog: no format, another format only, a format without id
\* only, or the known format under any two maxima that int() can return
LimitMaps ==
    {EmptyDict, [vk_post |-> [headline_max |-> 0, body_max |-> 0]], NoIdLimits}
    \cup {[yadirect_text |-> [headline_max |-> h, body_max |-> b]] :
            h \in 0..MaxLimit, b \in 0..MaxLimit}
    \cup {[yadirect_text |-> [headline_max |-> -1, body_max |-> b]] :
            b \in {-1, MaxLimit}}

InitPayload ==
    /\ payload \in Payloads
    /\ validated = [status |-> "pending"]
    /\ enforced = [status |-> "pending"]
    /\ IdleExtract
    /\ IdleGeneration
    /\ IdleParse
    /\ IdleSync

Validate ==
    /\ validated.status = "pending" /\ enforced.status = "pending"
    /\ validated' = [status |-> "done"] @@ model_validate("dict", payload)
    /\ UNCHANGED <<payload, enforced, extVars, genVars, srcVars>>

Enforce ==
    /\ validated.status = "pending" /\ enforced.status = "pending"
    /\ \E format_limits \in LimitMaps :
          enforced' = [status |-> "done", format_limits |-> format_limits,
                       value |-> ensure_format_limits(payload, format_limits)]
    /\ UNCHANGED <<payload, validated, extVars, genVars, srcVars>>

\* ensure_format_limits called again on what it returned, same limits
EnforceAgain ==
    /\ enforced.status = "done"
    /\ enforced' = [status |-> "twice", format_limits |-> enforced.format_limits,
                    value |-> enforced.value,
                    again |-> ensure_format_limits(enforced.value,
                                                   enforced.format_limits)]
    /\ UNCHANGED <<payload, validated, extVars, genVars, srcVars>>

NextPayload == Validate \/ Enforce \/ EnforceAgain

SpecPayload == InitPayload /\ [][NextPayload]_vars

----------------------------------------------------------------------------
(* Claims about the schema validator and the enforcer *)

Range(f) == {f[i] : i \in DOMAIN f}

\* the copies of a payload or response, as (segment, copy) positions
CopyPlaces(d) ==
    {<<i, n>> : i \in 1..Len(d.segments), n \in 1..MaxCopies + 1} \cap
    UNION {{<<i, n>> : n \in 1..Len(d.segments[i].copies)} :
              i \in 1..Len(d.segments)}

CopyAt(d, place) == d.segments[place[1]].copies[place[2]]

CountsMatchTexts(d) ==
    \A place \in CopyPlaces(d) :
        /\ CopyAt(d, place).char_count.headline = Len(CopyAt(d, place).headline)
        /\ CopyAt(d, place).char_count.body = Len(CopyAt(d, place).body)

\* the segments of the payload whose number of copies is not the requested one
Offending ==
    {i \in 1..Len(payload.segments) :
        Len(payload.segments[i].copies) # payload.input_echo.variants_per_segment}

\* the payload's fields, other than the supplied counts, pass their constraints
OtherFieldsValid ==
    /\ \E dot \in 2..(Len(payload.version) - 1) :
          /\ payload.version[dot] = "."
          /\ \A i \in (1..Len(payload.version)) \ {dot} :
                payload.version[i] \in {"0", "1", "2"}
    /\ "format_id" \in DOMAIN payload.input_echo
    /\ payload.input_echo.tone \in {"friendly", "neutral", "formal", "bold"}
    /\ payload.input_echo.variants_per_segment \in 1..3
    /\ \A i \in 1..Len(payload.questions) :
          payload.questions[i].priority \in {"P0", "P1", "P2"}

SuppliedCounts ==
    UNION {{CopyAt(payload, place).char_count.headline,
            CopyAt(payload, place).char_count.body} :
              place \in CopyPlaces(payload)}

ValidateDone == validated.status = "done"
EnforceDone == enforced.status \in {"done", "twice"}
\* the format id the enforcer looks up: "" when the echo holds none
EchoedFormat == Get(Get(payload, "input_echo", EmptyDict), "format_id", "")
NamedIds == Range(Get(validated.error.msg, "ids", <<>>))
NamedNumbers == Range(Get(validated.error.msg, "numbers", <<>>))

\* C6 as stated: an accepted response has the requested number of copies in
\* every segment, and a payload is rejected with a failure that names the
\* identifier of every segment whose number of copies differs.
C6_AsStated ==
    ValidateDone =>
        /\ validated.ok =>
              \A i \in 1..Len(validated.value.segments) :
                  Len(validated.value.segments[i].copies)
                      = validated.value.input_echo.variants_per_segment
        /\ \A i \in Offending :
              /\ ~validated.ok
              /\ payload.segments[i].segment_id \in NamedIds

\* C6 amended: an accepted response has the requested number of copies in
\* every segment; a payload in which any segment has a different number is
\* rejected, never returned as a success, and, when its fields pass their own
\* constraints, the failure names the identifier of the first such segment
\* and of no other.
C6_VariantCount ==
    ValidateDone =>
        /\ validated.ok =>
              \A i \in 1..Len(validated.value.segments) :
                  Len(validated.value.segments[i].copies)
                      = validated.value.input_echo.variants_per_segment
        /\ Offending # {} => ~validated.ok
        /\ (Offending # {} /\ OtherFieldsValid /\ \A c \in SuppliedCounts : c >= 0) =>
              NamedIds = {payload.segments[Least(Offending)].segment_id}

\* a second segment with too few copies is rejected by name
C6_Witness ==
    /\ ValidateDone
    /\ ~validated.ok
    /\ Len(payload.segments) = 2
    /\ Offending = {2}
    /\ NamedIds = {payload.segments[2].segment_id}

\* C7 as stated: the failure of the count check names the offending segment,
\* the expected count and the actual number of copies of that segment.
C7_AsStated ==
    (ValidateDone /\ ~validated.ok /\ validated.error.msg.kind = "value_error") =>
        \E i \in Offending :
            /\ payload.segments[i].segment_id \in NamedIds
            /\ payload.input_echo.variants_per_segment \in NamedNumbers
            /\ Len(payload.segments[i].copies) \in NamedNumbers

\* C7 amended: the failure of the count check names the identifier of the
\* first offending segment and the expected count, and no other number: the
\* actual number of copies of the segment is not in it.
C7_MismatchMessage ==
    (ValidateDone /\ ~validated.ok /\ validated.error.msg.kind = "value_error") =>
        /\ Offending # {}
        /\ validated.error.msg.ids
              = <<payload.segments[Least(Offending)].segment_id>>
        /\ validated.error.msg.numbers
              = <<payload.input_echo.variants_per_segment>>
        /\ \A i \in Offending : Len(payload.segments[i].copies) \notin NamedNumbers

\* three copies requested, the first of two offending segments holds one
C7_Witness ==
    /\ ValidateDone
    /\ ~validated.ok
    /\ validated.error.msg.kind = "value_error"
    /\ payload.input_echo.variants_per_segment = 3
    /\ Cardinality(Offending) = 2
    /\ Len(payload.segments[1].copies) = 1
    /\ validated.error.msg.numbers = <<3>>

\* C8: in every accepted response, and in every payload the enforcer returns
\* for a format that the limits map knows, each copy's character counts are
\* the lengths of its headline and body.
C8_CountsAreLengths ==
    /\ (ValidateDone /\ validated.ok) => CountsMatchTexts(validated.value)
    /\ (EnforceDone /\ EchoedFormat \in DOMAIN enforced.format_limits)
          => CountsMatchTexts(enforced.value)

\* a response was accepted whose payload carried a count that was not a length
C8_Witness ==
    /\ ValidateDone
    /\ validated.ok
    /\ ~CountsMatchTexts(payload)
    /\ CountsMatchTexts(validated.value)

\* C9 as stated: a payload valid in every other respect is accepted whatever
\* counts it supplies, and its counts become the lengths.
C9_AsStated ==
    (ValidateDone /\ OtherFieldsValid /\ Offending = {}) =>
        /\ validated.ok
        /\ CountsMatchTexts(validated.value)

\* C9 amended: a payload valid in every other respect whose supplied counts
\* are non-negative integers is accepted whatever those counts are, and its
\* counts become the lengths of the unchanged texts; a negative supplied
\* count causes a rejection.
C9_CountsReplaced ==
    (ValidateDone /\ OtherFieldsValid /\ Offending = {}) =>
        IF \A c \in SuppliedCounts : c >= 0
        THEN /\ validated.ok
             /\ CountsMatchTexts(validated.value)
             /\ \A place \in CopyPlaces(payload) :
                   /\ CopyAt(validated.value, place).headline
                         = CopyAt(payload, place).headline
                   /\ CopyAt(validated.value, place).body
                         = CopyAt(payload, place).body
        ELSE ~validated.ok

\* a fabricated count, larger than any text, was accepted and replaced
C9_Witness ==
    /\ ValidateDone
    /\ validated.ok
    /\ \E place \in CopyPlaces(payload) :
          /\ CopyAt(payload, place).char_count.headline = 7
          /\ CopyAt(validated.value, place).char_count.headline
                = Len(CopyAt(payload, place).headline)

----------------------------------------------------------------------------
(* Claims about the format-limit enforcer *)

\* the limits the enforcer found for the payload, EmptyDict when none
Limits == Get(enforced.format_limits, EchoedFormat, EmptyDict)
HasLimits == Limits # EmptyDict
NonNegativeLimits == Limits.headline_max >= 0 /\ Limits.body_max >= 0
Flags(copy) == Get(copy, "risk_flags", <<>>)
EndsInWhitespace(text) == text # <<>> /\ text[Len(text)] \in Whitespace

\* C12: under limits whose maxima are non-negative, a second pass of the
\* enforcer over what the first returned changes nothing: no text is cut, no
\* format_overflow flag is appended and no count changes.
C12_Idempotent ==
    (enforced.status = "twice" /\ (HasLimits => NonNegativeLimits)) =>
        enforced.again = enforced.value

\* the first pass cut a headline and flagged the copy; the second left it
C12_Witness ==
    /\ enforced.status = "twice"
    /\ HasLimits /\ NonNegativeLimits
    /\ \E place \in CopyPlaces(payload) :
          /\ Len(CopyAt(payload, place).headline) > Limits.headline_max
          /\ Len(Flags(CopyAt(enforced.value, place)))
                = Len(Flags(CopyAt(payload, place))) + 1
    /\ enforced.again = enforced.value

\* what C13 says of one copy before and after enforcement
WithinLimits(before, after) ==
    LET cut_headline == Len(before.headline) > Limits.headline_max
        cut_body == Len(before.body) > Limits.body_max
    IN /\ Len(after.headline) <= Limits.headline_max
       /\ Len(after.body) <= Limits.body_max
       /\ cut_headline => ~EndsInWhitespace(after.headline)
       /\ cut_body => ~EndsInWhitespace(after.body)
       /\ Flags(after) =
             IF cut_headline \/ cut_body
             THEN Append(Flags(before), FormatOverflow)
             ELSE Flags(before)

\* C13 as stated: when the map holds limits for the echoed format, every
\* enforced headline and body is within its maximum, a cut text has no
\* trailing whitespace, and a copy gains one format_overflow flag if one of
\* its texts was cut and none otherwise.
C13_AsStated ==
    (EnforceDone /\ HasLimits) =>
        /\ CopyPlaces(enforced.value) = CopyPlaces(payload)
        /\ \A place \in CopyPlaces(payload) :
              WithinLimits(CopyAt(payload, place), CopyAt(enforced.value, place))

\* C13 amended: the same, when the maxima of those limits are non-negative.
C13_EnforcedWithinLimits ==
    (EnforceDone /\ HasLimits /\ NonNegativeLimits) =>
        /\ CopyPlaces(enforced.value) = CopyPlaces(payload)
        /\ \A place \in CopyPlaces(payload) :
              WithinLimits(CopyAt(payload, place), CopyAt(enforced.value, place))

\* a headline ending in a space after the cut came back shorter than the
\* maximum, with one flag more
C13_Witness ==
    /\ EnforceDone /\ HasLimits /\ NonNegativeLimits
    /\ \E place \in CopyPlaces(payload) :
          /\ Len(CopyAt(payload, place).headline) > Limits.headline_max
          /\ Len(CopyAt(enforced.value, place).headline) < Limits.headline_max
          /\ Len(CopyAt(payload, place).body) <= Limits.body_max
          /\ Flags(CopyAt(enforced.value, place))
                = Append(Flags(CopyAt(payload, place)), FormatOverflow)

\* C14 as stated: when the map has no entry for the echoed format id, or the
\* payload echoes no format id, the enforcer returns the payload unchanged.
C14_AsStated ==
    (/\ EnforceDone
     /\ \/ EchoedFormat \notin DOMAIN enforced.format_limits
        \/ "format_id" \notin DOMAIN payload.input_echo) =>
        enforced.value = payload

\* C14 amended: when the map has no entry for the echoed format id, taken to
\* be the empty string when the payload echoes none, the enforcer returns
\* the payload unchanged: no text cut, no flag added, no count rewritten.
C14_UnknownFormatUnchanged ==
    (EnforceDone /\ EchoedFormat \notin DOMAIN enforced.format_limits) =>
        enforced.value = payload

\* a payload with a text longer than any maximum and a stale count came back
\* as it was, the map holding another format only
C14_Witness ==
    /\ EnforceDone
    /\ DOMAIN enforced.format_limits = {OtherFormat}
    /\ EchoedFormat = KnownFormat
    /\ ~CountsMatchTexts(payload)
    /\ \E place \in CopyPlaces(payload) : Len(CopyAt(payload, place).headline) > 0
    /\ enforced.value = payload

\* C15 as stated: whatever the payload and the map, every copy the enforcer
\* returns has counts equal to the lengths of its headline and body.
C15_AsStated ==
    EnforceDone => CountsMatchTexts(enforced.value)

\* C15 amended: when the map holds limits for the echoed format id, whatever
\* their maxima, every returned copy has counts equal to the lengths of its
\* texts; when it holds none, every returned copy has the counts it came with.
C15_CountsAfterEnforce ==
    EnforceDone =>
        IF HasLimits
        THEN CountsMatchTexts(enforced.value)
        ELSE \A place \in CopyPlaces(payload) :
                CopyAt(enforced.value, place).char_count
                    = CopyAt(payload, place).char_count

\* stale counts and a body over the limit: cut and recounted
C15_Witness ==
    /\ EnforceDone /\ HasLimits
    /\ \E place \in CopyPlaces(payload) :
          /\ CopyAt(payload, place).char_count.body # Len(CopyAt(payload, place).body)
          /\ Len(CopyAt(payload, place).body) > Limits.body_max
          /\ CopyAt(enforced.value, place).char_count.body
                = Len(CopyAt(enforced.value, place).body)
          /\ Len(CopyAt(enforced.value, place).body) < Len(CopyAt(payload, place).body)

----------------------------------------------------------------------------
(* Parser runs: one call of parse_segments, parse_formats or parse_slides   *)
(* on a section of at most MaxLines lines.                                  *)

SegmentLines ==
    {<<"SEGMENT">>, <<"END">>, <<SPACE, "END", SPACE>>, <<HASH, "END">>, <<>>,
     <<"id", EQUALS, "a">>, <<"id", EQUALS, "b">>}

FormatLines ==
    {<<"FORMAT">>, <<"END">>, <<"id", EQUALS, "f">>,
     <<"headline_max", EQUALS, "1", "0">>, <<"headline_max", EQUALS, "x">>,
     <<"headline_max", EQUALS>>, <<"body_max", EQUALS, MINUS, "1">>,
     <<"body_max", EQUALS, "1", ".", "5">>}

SlideLines ==
    {<<"SLIDE", SPACE, "1">>, <<"SLIDE", SPACE, "2">>, <<"SLIDE", SPACE, "3">>,
     <<"SLIDE", SPACE, "x">>, <<"title", EQUALS, "a">>, <<"title", EQUALS, "b">>,
     <<"number", EQUALS, "x">>}

KeyValueLines ==
    {<<"title", EQUALS, "a">>, <<SPACE, "title", SPACE, EQUALS, SPACE, "b", SPACE>>,
     <<"tone", EQUALS, "a", EQUALS, "b">>, <<"tone", EQUALS>>,
     <<HASH, "title", EQUALS, "a">>, <<"title">>, <<SPACE>>, <<EQUALS, "a">>}

SplitterLines ==
    {<<"[", "PROJECT_META", "]">>, <<SPACE, "[", "PROJECT_META", "]", SPACE>>,
     <<"[", "SLIDES", "]">>, <<"[", "x", "]">>, <<SPACE, "a", SPACE>>, <<"b">>,
     <<SPACE>>}

Sections ==
    ({"sections"} \X SeqsUpTo(SplitterLines, MaxLines))
    \cup ({"key_values"} \X SeqsUpTo(KeyValueLines, MaxLines))
    \cup ({"segments"} \X SeqsUpTo(SegmentLines, MaxLines))
    \cup ({"formats"} \X SeqsUpTo(FormatLines, MaxLines))
    \cup ({"slides"} \X SeqsUpTo(SlideLines, MaxLines))

InitParse ==
    /\ \E section \in Sections :
          section_kind = section[1] /\ section_text = section[2]
    /\ parsed_section = [status |-> "pending"]
    /\ IdleSync
    /\ IdleExtract
    /\ IdlePayload
    /\ IdleGeneration

ParseSegments ==
    /\ section_kind = "segments" /\ parsed_section.status = "pending"
    /\ parsed_section' = [status |-> "done"] @@ parse_segments(section_text)
    /\ UNCHANGED <<section_kind, section_text, syncVars, extVars, payVars, genVars>>

ParseFormats ==
    /\ section_kind = "formats" /\ parsed_section.status = "pending"
    /\ parsed_section' = [status |-> "done"] @@ parse_formats(section_text)
    /\ UNCHANGED <<section_kind, section_text, syncVars, extVars, payVars, genVars>>

ParseSlides ==
    /\ section_kind = "slides" /\ parsed_section.status = "pending"
    /\ parsed_section' = [status |-> "done"] @@ parse_slides(section_text)
    /\ UNCHANGED <<section_kind, section_text, syncVars, extVars, payVars, genVars>>

\* sync_from_text.py lines 126-127: a sample-input section is parsed
ParseKeyValues ==
    /\ section_kind = "key_values" /\ parsed_section.status = "pending"
    /\ parsed_section' = [status |-> "done", ok |-> TRUE, error |-> NoError,
                          value |-> parse_key_values(section_text)]
    /\ UNCHANGED <<section_kind, section_text, syncVars, extVars, payVars, genVars>>

\* sync_from_text.py lines 138-139: the parsed block is written as text
BuildSampleInputText ==
    /\ section_kind = "key_values" /\ parsed_section.status = "done"
    /\ parsed_section' =
          [status |-> "built", value |-> parsed_section.value,
           text |-> build_sample_input_text(parsed_section.value)]
    /\ UNCHANGED <<section_kind, section_text, syncVars, extVars, payVars, genVars>>

\* the written text is parsed and written again
RebuildSampleInputText ==
    /\ section_kind = "key_values" /\ parsed_section.status = "built"
    /\ parsed_section' =
          [status |-> "rebuilt", value |-> parsed_section.value,
           text |-> parsed_section.text,
           again |-> build_sample_input_text(
                        parse_key_values(splitlines(parsed_section.text)))]
    /\ UNCHANGED <<section_kind, section_text, syncVars, extVars, payVars, genVars>>

\* sync_from_text.py line 108: the text source is split into sections
ParseSections ==
    /\ section_kind = "sections" /\ parsed_section.status = "pending"
    /\ parsed_section' = [status |-> "done", ok |-> TRUE, error |-> NoError,
                          value |-> parse_sections(section_text)]
    /\ UNCHANGED <<section_kind, section_text, syncVars, extVars, payVars, genVars>>

NextParse ==
    \/ ParseSections
    \/ ParseSegments \/ ParseFormats \/ ParseSlides
    \/ ParseKeyValues \/ BuildSampleInputText \/ RebuildSampleInputText

SpecParse == InitParse /\ [][NextParse]_vars

----------------------------------------------------------------------------
(* Claims about the parsers, stated on the lines of the section *)

Stripped(i) == strip(section_text[i], Whitespace)
Read(i) == ~skipped_line(Stripped(i))
OpenWord == IF section_kind = "segments" THEN <<"SEGMENT">> ELSE <<"FORMAT">>
IsOpenLine(i) == Stripped(i) = OpenWord
IsEndLine(i) == Stripped(i) = <<"END">>

\* the line that opened the record that is open when line i is read, 0 when
\* no record is open then
OpenerAt(i) ==
    LET before == {j \in 1..(i - 1) : IsOpenLine(j) \/ IsEndLine(j)}
        last == CHOOSE j \in before : \A k \in before : k <= j
    IN IF before # {} /\ IsOpenLine(last) THEN last ELSE 0

\* the END lines met while a record is open
ClosingEnds == {i \in 1..Len(section_text) : IsEndLine(i) /\ OpenerAt(i) > 0}
OpenAtEnd == OpenerAt(Len(section_text) + 1) > 0

\* the lines buffered from line first to line last
RECURSIVE Buffered(_, _)
Buffered(first, last) ==
    IF first > last THEN <<>>
    ELSE (IF Read(first) THEN <<Stripped(first)>> ELSE <<>>)
         \o Buffered(first + 1, last)

RecordLines(end) == Buffered(OpenerAt(end) + 1, end - 1)

\* the records of the closing END lines from line i on, in order
RECURSIVE ClosedSegments(_)
ClosedSegments(i) ==
    IF i > Len(section_text) THEN <<>>
    ELSE (IF i \in ClosingEnds THEN <<segment_record(RecordLines(i))>> ELSE <<>>)
         \o ClosedSegments(i + 1)

ParseDone(kind) == section_kind = kind /\ parsed_section.status = "done"

\* C17: the segment parser emits one record for each END line met while a
\* record is open and none for an END line met while no record is open, so
\* the number of records is the number of END lines met while one is open.
C17_OneRecordPerClosingEnd ==
    ParseDone("segments") =>
        /\ parsed_section.ok
        /\ Len(parsed_section.value) = Cardinality(ClosingEnds)

\* SEGMENT, END, END: one record
C17_Witness ==
    /\ ParseDone("segments")
    /\ section_text = <<<<"SEGMENT">>, <<"END">>, <<"END">>>>
    /\ Len(parsed_section.value) = 1

\* the lines of the record that is open when the section ends
TrailingLines == Buffered(OpenerAt(Len(section_text) + 1) + 1, Len(section_text))

\* C18 as stated: a record still open at the end of the section, holding
\* key=value lines, is emitted as the last record of the result.
C18_AsStated ==
    (ParseDone("segments") /\ OpenAtEnd /\ TrailingLines # <<>>) =>
        /\ Len(parsed_section.value) > 0
        /\ parsed_section.value[Len(parsed_section.value)] =
              segment_record(TrailingLines)

\* C18 amended: a record still open at the end of the section is dropped:
\* the result holds the records closed by an END line, in order, and
\* nothing else.
C18_TrailingDropped ==
    (ParseDone("segments") /\ OpenAtEnd) =>
        parsed_section.value = ClosedSegments(1)

\* a closed record, then an open record b: only the closed one comes back
C18_Witness ==
    /\ ParseDone("segments")
    /\ section_text = <<<<"SEGMENT">>, <<"END">>,
                        <<"SEGMENT">>, <<"id", EQUALS, "b">>>>
    /\ Len(parsed_section.value) = 1
    /\ parsed_section.value[1].segment_id = <<>>

\* the marker lines of a slides section and the number each one spells
Markers ==
    {i \in 1..Len(section_text) :
        Read(i) /\ startswith(Stripped(i), <<"SLIDE", SPACE>>)}
MarkerNumber(m) == int(SubSeq(Stripped(m), 3, Len(Stripped(m))))
NextMarker(m) ==
    LET later == {i \in Markers : i > m}
    IN IF later = {} THEN Len(section_text) + 1 ELSE Least(later)
\* the key=value lines that follow marker m, as a dict
MarkerFields(m) == parse_key_values(Buffered(m + 1, NextMarker(m) - 1))
\* the place of marker m under ascending numbers, equal numbers in source order
MarkerRank(m) ==
    Cardinality({k \in Markers :
        \/ MarkerNumber(k).value < MarkerNumber(m).value
        \/ MarkerNumber(k).value = MarkerNumber(m).value /\ k <= m})

\* C19 as stated: the slide parser emits one record per marker line, the
\* last one included, in ascending order of the markers' numbers, records
\* of equal numbers in source order.
C19_AsStated ==
    (ParseDone("slides") /\ \A m \in Markers : MarkerNumber(m).ok) =>
        /\ parsed_section.ok
        /\ Len(parsed_section.value) = Cardinality(Markers)
        /\ \A m \in Markers :
              /\ parsed_section.value[MarkerRank(m)][NUMBER]
                    = IntVal(MarkerNumber(m).value)
              /\ <<"title">> \in DOMAIN MarkerFields(m) =>
                    parsed_section.value[MarkerRank(m)][<<"title">>]
                        = StrVal(MarkerFields(m)[<<"title">>])

\* the closing END lines of a formats section whose record spells a maximum
\* that int() does not take
SpelledWrong(end, key) ==
    /\ key \in DOMAIN parse_key_values(RecordLines(end))
    /\ ~int(parse_key_values(RecordLines(end))[key]).ok
WrongEnds ==
    {end \in ClosingEnds :
        SpelledWrong(end, <<"headline_max">>) \/ SpelledWrong(end, <<"body_max">>)}
\* the maximum that the record closed at line end should carry
MaximumOf(end, key) ==
    IF key \in DOMAIN parse_key_values(RecordLines(end))
    THEN int(parse_key_values(RecordLines(end))[key]).value
    ELSE 0
EndRank(end) == Cardinality({e \in ClosingEnds : e <= end})

\* C20 as stated: parse_formats raises no error, emits every closed record,
\* and a maximum that is absent or not a number comes out as 0.
C20_AsStated ==
    ParseDone("formats") =>
        /\ parsed_section.ok
        /\ Len(parsed_section.value) = Cardinality(ClosingEnds)
        /\ \A end \in ClosingEnds :
              /\ (\/ <<"headline_max">> \notin DOMAIN parse_key_values(RecordLines(end))
                  \/ SpelledWrong(end, <<"headline_max">>)) =>
                    parsed_section.value[EndRank(end)].limits.headline_max = 0
              /\ (\/ <<"body_max">> \notin DOMAIN parse_key_values(RecordLines(end))
                  \/ SpelledWrong(end, <<"body_max">>)) =>
                    parsed_section.value[EndRank(end)].limits.body_max = 0

\* C20 amended: a format record whose headline_max or body_max key is absent
\* is still emitted, with that maximum 0; a closed record in which one of
\* the two is present but is not an integer literal makes parse_formats
\* raise ValueError, and then no record is returned.
C20_AbsentDefaultsZero ==
    ParseDone("formats") =>
        IF WrongEnds = {}
        THEN /\ parsed_section.ok
             /\ Len(parsed_section.value) = Cardinality(ClosingEnds)
             /\ \A end \in ClosingEnds :
                   parsed_section.value[EndRank(end)].limits =
                      [headline_max |-> MaximumOf(end, <<"headline_max">>),
                       body_max |-> MaximumOf(end, <<"body_max">>)]
        ELSE /\ ~parsed_section.ok
             /\ parsed_section.error.type = "ValueError"
             /\ parsed_section.value = <<>>

\* a record with an id only: both maxima are 0
C20_Witness ==
    /\ ParseDone("formats")
    /\ section_text = <<<<"FORMAT">>, <<"id", EQUALS, "f">>, <<"END">>>>
    /\ parsed_section.ok
    /\ parsed_section.value =
          <<[format_id |-> <<"f">>, name |-> <<>>,
             limits |-> [headline_max |-> 0, body_max |-> 0]]>>

----------------------------------------------------------------------------
(* llm_client.py: run_generation *)

LLMClientError(msg) == [type |-> "LLMClientError", msg |-> msg]
JSONDecodeError == [type |-> "JSONDecodeError", msg |-> [kind |-> "json_decode"]]

\* a string of n letters
Letters(n) == [i \in 1..n |-> "a"]

\* the formats catalog (formats/ad_formats_ru.json) as the limits map
Catalog ==
    [yadirect_text |-> [headline_max |-> MaxLimit, body_max |-> MaxLimit],
     vk_post |-> [headline_max |-> MaxLimit, body_max |-> MaxLimit]]

OneCopyPayload(format_id, variants, copy) ==
    PayloadDict(<<"1", ".", "0">>, EchoDict("neutral", format_id, variants), <<>>,
                <<SegmentDict("s1", <<copy>>)>>)

\* what the member tokens decode to: a payload within the catalog's limits,
\* one whose headline is one character over the limit, one with one copy
\* where two were requested, one with a negative count
MembersOf(token) ==
    CASE token = "J1" ->
            OneCopyPayload("yadirect_text", 1, CopyDict(Letters(1), Letters(1), 0, 0))
      [] token = "J2" ->
            OneCopyPayload("yadirect_text", 1,
                           CopyDict(Letters(MaxLimit + 1), Letters(1), 0, 0))
      [] token = "J3" ->
            OneCopyPayload("vk_post", 2, CopyDict(Letters(1), Letters(1), 1, 1))
      [] token = "J4" ->
            OneCopyPayload("vk_post", 1, CopyDict(Letters(1), Letters(1), -1, 1))
      [] OTHER -> EmptyDict

parse_and_validate(raw) ==
    LET json_text == _extract_first_json_object(raw)
        decoded == json_loads(json_text.text)
    IN IF ~json_text.ok
       THEN [ok |-> FALSE, value |-> EmptyDict, error |-> json_text.error]
       ELSE IF ~decoded.ok
       THEN [ok |-> FALSE, value |-> EmptyDict, error |-> JSONDecodeError]
       ELSE model_validate(decoded.kind, MembersOf(decoded.members))

\* get_client(): "none" without a key, "raise" with a key and no openai
\* package, "client" otherwise
get_client == 
    IF ~environment.api_key THEN "none"
    ELSE IF ~environment.openai THEN "raise"
    ELSE "client"

Sample1 == "sample_output_1.json"
Sample2 == "sample_output_2.json"

\* load_mock_output that picks the file by the prompt instead of the format
load_mock_output_by_prompt(format_id, dir) ==
    LET file_name == IF request.prompt_text = "prompt_a" THEN Sample1 ELSE Sample2
    IN IF file_name \notin DOMAIN dir
       THEN [ok |-> FALSE, value |-> EmptyDict,
             error |-> LLMClientError([kind |-> "mock_file_missing"])]
       ELSE model_validate("dict", dir[file_name])

load_mock_output(format_id, dir) ==
    LET file_name == IF format_id = "yadirect_text" THEN Sample1 ELSE Sample2
    IN IF file_name \notin DOMAIN dir
       THEN [ok |-> FALSE, value |-> EmptyDict,
             error |-> LLMClientError([kind |-> "mock_file_missing"])]
       ELSE model_validate("dict", dir[file_name])

\* what client.responses.create may answer: output_text, the text of the
\* output items, or an exception of the provider's
Reply(output_text, content) ==
    [raises |-> FALSE, output_text |-> output_text, content |-> content]

ModelOutputs ==
    {<<>>, <<NEWLINE>>, <<WORD>>, <<LBRACE, RBRACE>>, <<QUOTE, WORD, QUOTE>>,
     <<LBRACE, WORD, RBRACE>>, <<LBRACE, "J1">>,
     <<FENCE, WORD, NEWLINE, LBRACE, "J1", RBRACE, NEWLINE, FENCE>>,
     <<WORD, LBRACE, "J2", RBRACE, WORD>>}
    \cup {<<LBRACE, token, RBRACE>> : token \in MemberTokens}

Replies ==
    {[raises |-> TRUE, output_text |-> <<>>, content |-> <<>>]}
    \cup {Reply(t, <<>>) : t \in ModelOutputs}
    \cup {Reply(<<>>, c) : c \in {<<NEWLINE>>, <<NEWLINE, LBRACE, "J1", RBRACE>>}}

APIError == [type |-> "APIError", msg |-> [kind |-> "provider"]]

Returned(response, mode, raw) ==
    [status |-> "returned", response |-> response, mode |-> mode, raw_text |-> raw]
Raised(error) == [status |-> "raised", error |-> error]

\* the sample sections of the source text (SAMPLE_OUTPUT_n_JSON), decoded
SampleSections ==
    {OneCopyPayload("yadirect_text", 1, CopyDict(Letters(1), Letters(1), 1, 1)),
     OneCopyPayload("yadirect_text", 1,
                    CopyDict(Letters(MaxLimit + 1), <<"a", SPACE>>, -1, 7)),
     OneCopyPayload("vk_post", 2, CopyDict(Letters(1), Letters(1), 1, 1)),
     OneCopyPayload("other", 1, WithFlags(CopyDict(Letters(1), <<>>, 0, 0), <<>>))}

InitGeneration ==
    /\ pc = "Idle"
    /\ request \in [prompt_text : {"prompt_a", "prompt_b"},
                    format_id : {"yadirect_text", "vk_post"},
                    force_mock : BOOLEAN]
    /\ environment \in [api_key : BOOLEAN, openai : BOOLEAN]
    /\ samples = EmptyDict
    /\ requests = <<>>
    /\ raw_text = <<>>
    /\ first_error = NoError
    /\ repaired_raw = <<>>
    /\ second_error = NoError
    /\ outcome = [status |-> "none"]
    /\ shown = [status |-> "none"]
    /\ IdleExtract
    /\ IdlePayload
    /\ IdleParse
    /\ IdleSync

genLocals == <<raw_text, first_error, repaired_raw, second_error>>

\* tools/sync_from_text.py main, lines 129-141: the two sample outputs are
\* normalised and written
SyncSamples ==
    /\ pc = "Idle"
    /\ \E section_1 \in SampleSections, section_2 \in SampleSections :
          samples' =
            [name \in {Sample1, Sample2} |->
                ensure_format_limits(
                    enforce_char_counts(
                        IF name = Sample1 THEN section_1 ELSE section_2),
                    Catalog)]
    /\ UNCHANGED <<pc, request, environment, requests, genLocals, outcome,
                   extVars, payVars,
                   srcVars, shown>>

\* line 161
Dispatch ==
    /\ pc = "Idle"
    /\ IF request.force_mock \/ get_client = "none"
       THEN pc' = "MockPath" /\ UNCHANGED outcome
       ELSE IF get_client = "raise"
       THEN /\ pc' = "Failure"
            /\ outcome' = Raised(LLMClientError([kind |-> "openai_not_installed"]))
       ELSE pc' = "LivePath" /\ UNCHANGED outcome
    /\ UNCHANGED <<request, environment, samples, requests, genLocals,
                   extVars, payVars,
                   srcVars, shown>>

\* line 162
MockPath ==
    /\ pc = "MockPath"
    /\ LET loaded == load_mock_output(request.format_id, samples)
       IN IF loaded.ok
          THEN pc' = "Success" /\ outcome' = Returned(loaded.value, "mock", <<>>)
          ELSE pc' = "Failure" /\ outcome' = Raised(loaded.error)
    /\ UNCHANGED <<request, environment, samples, requests, genLocals,
                   extVars, payVars,
                   srcVars, shown>>

\* generate handing an empty reply on as the raw text
LivePath_EmptyAsText ==
    /\ pc = "LivePath"
    /\ IF get_client # "client"
       THEN /\ pc' = "Failure"
            /\ outcome' = Raised(LLMClientError([kind |-> "no_api_key"]))
            /\ UNCHANGED <<requests, raw_text>>
       ELSE \E reply \in Replies :
              LET combined == strip(reply.content, Whitespace)
              IN /\ requests' = Append(requests,
                                    [kind |-> "generate",
                                     input |-> request.prompt_text,
                                     temperature |-> "0.35"])
                 /\ IF reply.raises
                    THEN /\ pc' = "Failure"
                         /\ outcome' = Raised(APIError)
                         /\ UNCHANGED raw_text
                    ELSE IF reply.output_text # <<>>
                    THEN /\ pc' = "ParseValidate"
                         /\ raw_text' = reply.output_text
                         /\ UNCHANGED outcome
                    ELSE /\ pc' = "ParseValidate"
                         /\ raw_text' = combined
                         /\ UNCHANGED outcome
    /\ UNCHANGED <<request, environment, samples, first_error, repaired_raw,
                   second_error, extVars, payVars,
                   srcVars, shown>>

\* line 164: generate
LivePath ==
    /\ pc = "LivePath"
    /\ IF get_client # "client"
       THEN /\ pc' = "Failure"
            /\ outcome' = Raised(LLMClientError([kind |-> "no_api_key"]))
            /\ UNCHANGED <<requests, raw_text>>
       ELSE \E reply \in Replies :
              LET combined == strip(reply.content, Whitespace)
              IN /\ requests' = Append(requests,
                                    [kind |-> "generate",
                                     input |-> request.prompt_text,
                                     temperature |-> "0.35"])
                 /\ IF reply.raises
                    THEN /\ pc' = "Failure"
                         /\ outcome' = Raised(APIError)
                         /\ UNCHANGED raw_text
                    ELSE IF reply.output_text # <<>>
                    THEN /\ pc' = "ParseValidate"
                         /\ raw_text' = reply.output_text
                         /\ UNCHANGED outcome
                    ELSE IF combined = <<>>
                    THEN /\ pc' = "Failure"
                         /\ outcome' = Raised(LLMClientError([kind |-> "empty_reply"]))
                         /\ UNCHANGED raw_text
                    ELSE /\ pc' = "ParseValidate"
                         /\ raw_text' = combined
                         /\ UNCHANGED outcome
    /\ UNCHANGED <<request, environment, samples, first_error, repaired_raw,
                   second_error, extVars, payVars,
                   srcVars, shown>>

\* lines 165-167 calling generate again when the first raw text fails
ParseValidate_Regenerate ==
    /\ pc = "ParseValidate"
    /\ LET parsed == parse_and_validate(raw_text)
       IN IF parsed.ok
          THEN /\ pc' = "Success"
               /\ outcome' = Returned(parsed.value, "llm", raw_text)
               /\ UNCHANGED first_error
          ELSE /\ pc' = IF Len(requests) < 2 THEN "LivePath" ELSE "RepairDispatch"
               /\ first_error' = parsed.error
               /\ UNCHANGED outcome
    /\ UNCHANGED <<request, environment, samples, requests, raw_text,
                   repaired_raw, second_error, extVars, payVars,
                   srcVars, shown>>

\* lines 165-167
ParseValidate ==
    /\ pc = "ParseValidate"
    /\ LET parsed == parse_and_validate(raw_text)
       IN IF parsed.ok
          THEN /\ pc' = "Success"
               /\ outcome' = Returned(parsed.value, "llm", raw_text)
               /\ UNCHANGED first_error
          ELSE /\ pc' = "RepairDispatch"
               /\ first_error' = parsed.error
               /\ UNCHANGED outcome
    /\ UNCHANGED <<request, environment, samples, requests, raw_text,
                   repaired_raw, second_error, extVars, payVars,
                   srcVars, shown>>

\* line 168: repair_json
RepairDispatch ==
    /\ pc = "RepairDispatch"
    /\ IF get_client # "client"
       THEN /\ pc' = "Failure"
            /\ outcome' = Raised(LLMClientError([kind |-> "no_api_key_for_repair"]))
            /\ UNCHANGED <<requests, repaired_raw>>
       ELSE \E reply \in Replies :
              LET fixed == strip(reply.output_text, Whitespace)
              IN /\ requests' = Append(requests,
                                    [kind |-> "repair",
                                     validation_error |-> first_error.msg,
                                     raw_text |-> raw_text,
                                     temperature |-> "0"])
                 /\ IF reply.raises
                    THEN /\ pc' = "Failure"
                         /\ outcome' = Raised(APIError)
                         /\ UNCHANGED repaired_raw
                    ELSE IF fixed = <<>>
                    THEN /\ pc' = "Failure"
                         /\ outcome' = Raised(LLMClientError([kind |-> "empty_repair"]))
                         /\ UNCHANGED repaired_raw
                    ELSE /\ pc' = "RepairParseValidate"
                         /\ repaired_raw' = fixed
                         /\ UNCHANGED outcome
    /\ UNCHANGED <<request, environment, samples, raw_text, first_error,
                   second_error, extVars, payVars,
                   srcVars, shown>>

\* lines 169-177 asking for another repair when the repaired text fails
RepairParseValidate_Again ==
    /\ pc = "RepairParseValidate"
    /\ LET parsed == parse_and_validate(repaired_raw)
       IN IF parsed.ok
          THEN /\ pc' = "Success"
               /\ outcome' = Returned(parsed.value, "llm", repaired_raw)
               /\ UNCHANGED second_error
          ELSE /\ pc' = IF Len(requests) < 3 THEN "RepairDispatch" ELSE "Failure"
               /\ second_error' = parsed.error
               /\ outcome' = Raised(LLMValidationError(
                                [kind |-> "repair_failed",
                                 hint |-> "use_mock_or_sample",
                                 cause |-> parsed.error.msg]))
    /\ UNCHANGED <<request, environment, samples, requests, raw_text,
                   first_error, repaired_raw, extVars, payVars,
                   srcVars, shown>>

\* lines 169-177 with the first round's error in the message
RepairParseValidate_FirstCause ==
    /\ pc = "RepairParseValidate"
    /\ LET parsed == parse_and_validate(repaired_raw)
       IN IF parsed.ok
          THEN /\ pc' = "Success"
               /\ outcome' = Returned(parsed.value, "llm", repaired_raw)
               /\ UNCHANGED second_error
          ELSE /\ pc' = "Failure"
               /\ second_error' = parsed.error
               /\ outcome' = Raised(LLMValidationError(
                                [kind |-> "repair_failed",
                                 hint |-> "use_mock_or_sample",
                                 cause |-> first_error.msg]))
    /\ UNCHANGED <<request, environment, samples, requests, raw_text,
                   first_error, repaired_raw, extVars, payVars,
                   srcVars, shown>>

\* lines 169-177 returning the first raw text with the repaired response
RepairParseValidate_FirstText ==
    /\ pc = "RepairParseValidate"
    /\ LET parsed == parse_and_validate(repaired_raw)
       IN IF parsed.ok
          THEN /\ pc' = "Success"
               /\ outcome' = Returned(parsed.value, "llm", raw_text)
               /\ UNCHANGED second_error
          ELSE /\ pc' = "Failure"
               /\ second_error' = parsed.error
               /\ outcome' = Raised(LLMValidationError(
                                [kind |-> "repair_failed",
                                 hint |-> "use_mock_or_sample",
                                 cause |-> parsed.error.msg]))
    /\ UNCHANGED <<request, environment, samples, requests, raw_text,
                   first_error, repaired_raw, extVars, payVars,
                   srcVars, shown>>

\* lines 169-177
RepairParseValidate ==
    /\ pc = "RepairParseValidate"
    /\ LET parsed == parse_and_validate(repaired_raw)
       IN IF parsed.ok
          THEN /\ pc' = "Success"
               /\ outcome' = Returned(parsed.value, "llm", repaired_raw)
               /\ UNCHANGED second_error
          ELSE /\ pc' = "Failure"
               /\ second_error' = parsed.error
               /\ outcome' = Raised(LLMValidationError(
                                [kind |-> "repair_failed",
                                 hint |-> "use_mock_or_sample",
                                 cause |-> parsed.error.msg]))
    /\ UNCHANGED <<request, environment, samples, requests, raw_text,
                   first_error, repaired_raw, extVars, payVars,
                   srcVars, shown>>

Rendered(response, mode) ==
    [status |-> "rendered", response |-> response, mode |-> mode]
Unhandled(error) == [status |-> "unhandled", error |-> error]

\* app.py lines 345-350 and 366: the result of run_generation is rendered
RenderResult ==
    /\ pc = "Success" /\ shown.status = "none"
    /\ shown' = Rendered(outcome.response, outcome.mode)
    /\ UNCHANGED <<pc, request, environment, samples, requests, genLocals,
                   outcome, extVars, payVars, srcVars>>

\* app.py lines 351-358 and 366: LLMValidationError and LLMClientError are
\* caught and the sample of the format is loaded in the handler; any other
\* exception, and one raised in the handler, leaves main
Fallback ==
    /\ pc = "Failure" /\ shown.status = "none"
    /\ LET loaded == load_mock_output(request.format_id, samples)
       IN shown' =
            IF outcome.error.type \notin {"LLMValidationError", "LLMClientError"}
            THEN Unhandled(outcome.error)
            ELSE IF loaded.ok THEN Rendered(loaded.value, "mock-fallback")
            ELSE Unhandled(loaded.error)
    /\ UNCHANGED <<pc, request, environment, samples, requests, genLocals,
                   outcome, extVars, payVars, srcVars>>

Next ==
    \/ RenderResult
    \/ Fallback
    \/ SyncSamples
    \/ Dispatch
    \/ MockPath
    \/ LivePath
    \/ ParseValidate
    \/ RepairDispatch
    \/ RepairParseValidate

Spec == InitGeneration /\ [][Next]_vars

\* the place of a step on the path
PathRank ==
    [Idle |-> 0, MockPath |-> 1, LivePath |-> 1, ParseValidate |-> 2,
     RepairDispatch |-> 3, RepairParseValidate |-> 4, Success |-> 5, Failure |-> 5]

\* run_generation is sequential code: every call it makes returns or
\* raises, and then the statement that follows runs.  Dispatch, MockPath,
\* LivePath, ParseValidate, RepairDispatch and RepairParseValidate are the
\* steps of Next that move pc, each enabled whenever pc is at it, and each
\* moves it forward.
Advance ==
    /\ pc \in DOMAIN PathRank \ {"Success", "Failure"}
    /\ pc' \in DOMAIN PathRank
    /\ PathRank[pc'] > PathRank[pc]

SpecReturning == Spec /\ WF_pc(Advance)

\* a run of the extractor alone on any text, or a run of run_generation
InitExtractOrGenerate == InitExtract \/ InitGeneration
NextExtractOrGenerate == NextExtract \/ Next
SpecExtractOrGenerate == InitExtractOrGenerate /\ [][NextExtractOrGenerate]_vars

----------------------------------------------------------------------------
(* Claims about run_generation *)

Terminal == pc \in {"Success", "Failure"}
MockDispatched == request.force_mock \/ ~environment.api_key
FirstRawObtained == raw_text # <<>>
RepairedRawObtained == repaired_raw # <<>>

\* C1: a call sends 0, 1 or 2 requests: none when mock mode is forced or no
\* credential is configured, one when the first raw text passes extraction
\* and validation, two when it fails; never a third.
C1_RequestCount ==
    /\ Len(requests) \in {0, 1, 2}
    /\ MockDispatched => Len(requests) = 0
    /\ (Terminal /\ FirstRawObtained /\ parse_and_validate(raw_text).ok)
          => Len(requests) = 1
    /\ (Terminal /\ FirstRawObtained /\ ~parse_and_validate(raw_text).ok)
          => Len(requests) = 2

\* both rounds failed validation and the call ended after two requests
C1_Witness ==
    /\ pc = "Failure"
    /\ FirstRawObtained /\ RepairedRawObtained
    /\ ~parse_and_validate(repaired_raw).ok
    /\ Len(requests) = 2
    /\ requests[2].kind = "repair"

\* C2: when the first raw text and the repaired text both fail extraction or
\* validation, the call ends in one LLMValidationError whose message holds
\* the repair round's failure reason and the advice to use mock mode or a
\* sample, and no response is returned.
C2_SecondFailureSurfaces ==
    (/\ Terminal
     /\ FirstRawObtained /\ ~parse_and_validate(raw_text).ok
     /\ RepairedRawObtained /\ ~parse_and_validate(repaired_raw).ok)
    => /\ pc = "Failure"
       /\ outcome.status = "raised"
       /\ "response" \notin DOMAIN outcome
       /\ outcome.error.type = "LLMValidationError"
       /\ outcome.error.msg.kind = "repair_failed"
       /\ outcome.error.msg.hint = "use_mock_or_sample"
       /\ outcome.error.msg.cause = parse_and_validate(repaired_raw).error.msg
       /\ Len(requests) = 2

\* the two rounds failed for different reasons and the second one is reported
C2_Witness ==
    /\ pc = "Failure"
    /\ RepairedRawObtained
    /\ first_error.msg.kind = "no_json_object"
    /\ second_error.msg.kind = "value_error"
    /\ outcome.error.msg.cause = second_error.msg

\* C3: with mock mode forced or no credential configured, no request is sent,
\* and a result that is returned is tagged "mock", has empty raw text and is
\* the stored sample of the format id (sample 1 for yadirect_text, sample 2
\* for every other id), whatever the prompt is.
C3_MockBySampleOfFormat ==
    MockDispatched =>
        /\ Len(requests) = 0
        /\ outcome.status = "returned" =>
              LET name == IF request.format_id = "yadirect_text"
                          THEN Sample1 ELSE Sample2
              IN /\ outcome.mode = "mock"
                 /\ outcome.raw_text = <<>>
                 /\ name \in DOMAIN samples
                 /\ outcome.response = model_validate("dict", samples[name]).value

\* mock mode was forced with a credential configured; the second sample,
\* which differs from the first, came back for another format id
C3_Witness ==
    /\ pc = "Success"
    /\ request.force_mock /\ environment.api_key /\ environment.openai
    /\ request.format_id = "vk_post"
    /\ request.prompt_text = "prompt_a"
    /\ samples[Sample1] # samples[Sample2]
    /\ outcome.mode = "mock"
    /\ outcome.response.input_echo = samples[Sample2].input_echo

\* C4 as stated: the mock path ends in success for every pair of samples
\* that the sync step persisted.
C4_AsStated ==
    (Terminal /\ MockDispatched /\ samples # EmptyDict) => pc = "Success"

\* C5 as stated: every response returned as a success keeps, for the catalog
\* format of its echoed format id, every headline within headline_max and
\* every body within body_max.
C5_AsStated ==
    (pc = "Success" /\ outcome.response.input_echo.format_id \in DOMAIN Catalog) =>
        LET limits == Catalog[outcome.response.input_echo.format_id]
        IN \A i \in 1..Len(outcome.response.segments) :
              \A n \in 1..Len(outcome.response.segments[i].copies) :
                  /\ Len(outcome.response.segments[i].copies[n].headline)
                        <= limits.headline_max
                  /\ Len(outcome.response.segments[i].copies[n].body)
                        <= limits.body_max

----------------------------------------------------------------------------
(* tools/sync_from_text.py: main().  The text source exists and is a        *)
(* sequence of lines; a tag line is "[", a section name, "]".  Of a file    *)
(* written only the path is kept.                                           *)

MinSegments == 7
MinFormats == 4
MinSlides == 12

\* require_sections naming only the first missing section
require_sections_first_only(sections, required) ==
    LET missing == SelectSeq(required,
                      LAMBDA name : name \notin DOMAIN sections
                                    \/ strip_lines(sections[name]) = <<>>)
    IN IF missing # <<>>
       THEN [ok |-> FALSE,
             error |-> ContentSourceError([kind |-> "missing_sections",
                                           names |-> <<Head(missing)>>])]
       ELSE [ok |-> TRUE, error |-> NoError]

\* content_source.py lines 41-48: the required names that are absent or blank
require_sections(sections, required) ==
    LET missing == SelectSeq(required,
                      LAMBDA name : name \notin DOMAIN sections
                                    \/ strip_lines(sections[name]) = <<>>)
    IN IF missing # <<>>
       THEN [ok |-> FALSE,
             error |-> ContentSourceError([kind |-> "missing_sections",
                                           names |-> missing])]
       ELSE [ok |-> TRUE, error |-> NoError]

\* lines 91-103
validate_minimums(segments, formats, slides) ==
    IF Len(segments) < MinSegments
    THEN [ok |-> FALSE,
          error |-> ContentSourceError([kind |-> "too_few", of |-> "segments",
                                        found |-> Len(segments)])]
    ELSE IF Len(formats) < MinFormats
    THEN [ok |-> FALSE,
          error |-> ContentSourceError([kind |-> "too_few", of |-> "formats",
                                        found |-> Len(formats)])]
    ELSE IF Len(slides) < MinSlides
    THEN [ok |-> FALSE,
          error |-> ContentSourceError([kind |-> "too_few", of |-> "slides",
                                        found |-> Len(slides)])]
    ELSE [ok |-> TRUE, error |-> NoError]

\* content_source.py lines 188-194: the decoded value, as json_loads gives it
parse_json_section(section, name) ==
    LET decoded == json_loads(join_lines(section))
    IN IF decoded.ok
       THEN [ok |-> TRUE, kind |-> decoded.kind,
             value |-> MembersOf(decoded.members), error |-> NoError]
       ELSE [ok |-> FALSE, kind |-> "none", value |-> EmptyDict,
             error |-> ContentSourceError([kind |-> "invalid_json",
                                           names |-> <<name>>])]

\* content_source.py lines 213-220: int() of what follows "step_" in every
\* key that starts with it; the Markdown text itself is not modelled
demo_steps_to_markdown(step_map) ==
    LET numbered_keys == {key \in DOMAIN step_map : startswith(key, <<"step_">>)}
    IN IF \A key \in numbered_keys : int(Tail(key)).ok
       THEN [ok |-> TRUE, error |-> NoError]
       ELSE [ok |-> FALSE, error |-> ValueError([kind |-> "int", of |-> "step"])]

AttributeError(msg) == [type |-> "AttributeError", msg |-> msg]

\* main, lines 107-133: everything that is read, parsed and normalised
\* before the first write; the exception that ends it, if any.  The limits
\* map of lines 118-124 and the normalised samples of lines 132-133 are
\* those of SyncSamples.
main_reads(lines) ==
    LET sections == parse_sections(lines)
        required == require_sections(sections, REQUIRED_SECTIONS)
        segments == parse_segments(sections["DEFAULT_SEGMENTS"])
        formats == parse_formats(sections["AD_FORMATS"])
        slides == parse_slides(sections["SLIDES"])
        minimums == validate_minimums(segments.value, formats.value, slides.value)
        sample_output_1 ==
            parse_json_section(sections["SAMPLE_OUTPUT_1_JSON"], "SAMPLE_OUTPUT_1_JSON")
        sample_output_2 ==
            parse_json_section(sections["SAMPLE_OUTPUT_2_JSON"], "SAMPLE_OUTPUT_2_JSON")
    IN IF ~required.ok THEN required.error
       ELSE IF ~formats.ok THEN formats.error
       ELSE IF ~slides.ok THEN slides.error
       ELSE IF ~minimums.ok THEN minimums.error
       ELSE IF ~sample_output_1.ok THEN sample_output_1.error
       ELSE IF ~sample_output_2.ok THEN sample_output_2.error
       ELSE IF sample_output_1.kind # "dict" \/ sample_output_2.kind # "dict"
       THEN AttributeError([kind |-> "no_get"])
       ELSE NoError

CatalogFiles == {"segments/default_segments_ru.json", "formats/ad_formats_ru.json"}
SampleFiles ==
    {"samples/sample_input_1_ru.txt", "samples/sample_input_2_ru.txt",
     "samples/sample_output_1.json", "samples/sample_output_2.json"}
DemoFiles == {"submission/demo_script.md"}
SubmissionFiles == {"submission/answers.md", "submission/pitch_1pager.md"}
DeckFiles == {"deck/deck_config.json"}

\* the sections of the text source, one body each
RECURSIVE Repeat(_, _)
Repeat(lines, n) == IF n = 0 THEN <<>> ELSE lines \o Repeat(lines, n - 1)

DigitOf(n) == CHOOSE c \in DOMAIN DigitValue : DigitValue[c] = n
NumberText(n) == IF n < 10 THEN <<DigitOf(n)>> ELSE <<DigitOf(n \div 10), DigitOf(n % 10)>>

RECURSIVE SlideMarkers(_)
SlideMarkers(n) ==
    IF n = 0 THEN <<>>
    ELSE SlideMarkers(n - 1) \o <<<<"SLIDE", SPACE>> \o NumberText(n)>>

FormatBlock(limit) ==
    <<<<"FORMAT">>, <<"headline_max", EQUALS>> \o limit, <<"END">>>>

SectionBodies ==
    [PROJECT_META |-> {<<<<"name", EQUALS, "a">>>>},
     DEFAULT_SEGMENTS |->
        {Repeat(<<<<"SEGMENT">>, <<"END">>>>, MinSegments),
         Repeat(<<<<"SEGMENT">>, <<"END">>>>, MinSegments - 1) \o <<<<"SEGMENT">>>>},
     AD_FORMATS |->
        {Repeat(FormatBlock(<<"2">>), MinFormats),
         Repeat(FormatBlock(<<"2">>), MinFormats) \o FormatBlock(<<"x">>),
         Repeat(FormatBlock(<<"2">>), MinFormats - 1)},
     SAMPLE_INPUT_1 |-> {<<<<"title", EQUALS, "a">>>>},
     SAMPLE_INPUT_2 |-> {<<<<"title", EQUALS, "b">>>>},
     SAMPLE_OUTPUT_1_JSON |->
        {<<<<LBRACE, "J1", RBRACE>>>>, <<<<LBRACE, "J1">>>>, <<<<QUOTE, QUOTE>>>>},
     SAMPLE_OUTPUT_2_JSON |-> {<<<<LBRACE>>, <<"J3", RBRACE>>>>, <<<<RBRACE>>>>},
     DEMO_SCRIPT |->
        {<<<<"step_", "1", EQUALS, "a">>>>, <<<<"step_", "x", EQUALS, "a">>>>,
         <<<<"note", EQUALS, "a">>>>},
     SLIDES |->
        {SlideMarkers(MinSlides),
         SlideMarkers(MinSlides) \o <<<<"SLIDE", SPACE, "x">>>>,
         SlideMarkers(MinSlides) \o <<<<"number", EQUALS, "x">>>>,
         SlideMarkers(MinSlides - 1)},
     SUBMISSION_ANSWERS_MD |-> {<<<<"a">>>>},
     PITCH_1PAGER_MD |-> {<<<<"b">>>>}]

\* what is wrong with the sections: for at most MaxFaulty of them, the tag
\* is absent or the body is blank
Faults == {<<how, REQUIRED_SECTIONS[i]>> :
             how \in {"absent", "blank"}, i \in 1..Len(REQUIRED_SECTIONS)}
RECURSIVE FaultSets(_)
FaultSets(n) ==
    IF n = 0 THEN {{}}
    ELSE LET fewer == FaultSets(n - 1)
         IN fewer \cup {faults \cup {f} : faults \in fewer,
                           f \in Faults}
Presence == {faults \in FaultSets(MaxFaulty) :
               \A f, g \in faults : f[2] = g[2] => f = g}

RECURSIVE TextSource(_, _, _)
TextSource(bodies, presence, i) ==
    IF i > Len(REQUIRED_SECTIONS) THEN <<>>
    ELSE LET name == REQUIRED_SECTIONS[i]
             tag == <<<<"[", name, "]">>>>
         IN (IF <<"absent", name>> \in presence THEN <<>>
             ELSE IF <<"blank", name>> \in presence THEN tag \o <<<<SPACE>>>>
             ELSE tag \o bodies[name])
            \o TextSource(bodies, presence, i + 1)

\* the source with the chosen bodies, the other sections as they are
SourceWith(segments, formats, sample_output_1, sample_output_2, demo_script,
           slides, presence) ==
    TextSource([name \in DOMAIN SectionBodies |->
                  CASE name = "DEFAULT_SEGMENTS" -> segments
                    [] name = "AD_FORMATS" -> formats
                    [] name = "SAMPLE_OUTPUT_1_JSON" -> sample_output_1
                    [] name = "SAMPLE_OUTPUT_2_JSON" -> sample_output_2
                    [] name = "DEMO_SCRIPT" -> demo_script
                    [] name = "SLIDES" -> slides
                    [] OTHER -> CHOOSE body \in SectionBodies[name] : TRUE],
               presence, 1)

InitSync ==
    /\ \/ \E segments \in SectionBodies.DEFAULT_SEGMENTS,
             formats \in SectionBodies.AD_FORMATS,
             sample_output_1 \in SectionBodies.SAMPLE_OUTPUT_1_JSON,
             sample_output_2 \in SectionBodies.SAMPLE_OUTPUT_2_JSON,
             demo_script \in SectionBodies.DEMO_SCRIPT,
             slides \in SectionBodies.SLIDES :
             text_source = SourceWith(segments, formats, sample_output_1,
                                      sample_output_2, demo_script, slides, {})
       \* sections absent or blank in a source that is valid otherwise
       \/ \E presence \in Presence \ {{}} :
             text_source =
                SourceWith(Repeat(<<<<"SEGMENT">>, <<"END">>>>, MinSegments),
                           Repeat(FormatBlock(<<"2">>), MinFormats),
                           <<<<LBRACE, "J1", RBRACE>>>>,
                           <<<<LBRACE>>, <<"J3", RBRACE>>>>,
                           <<<<"step_", "1", EQUALS, "a">>>>,
                           SlideMarkers(MinSlides), presence)
    /\ sync_pc = "Read"
    /\ files = {}
    /\ sync_error = NoError
    /\ IdleParse
    /\ IdleExtract
    /\ IdlePayload
    /\ IdleGeneration

\* lines 107-133
SyncRead ==
    /\ sync_pc = "Read"
    /\ sync_error' = main_reads(text_source)
    /\ sync_pc' = IF main_reads(text_source) = NoError THEN "WriteCatalog" ELSE "Failed"
    /\ UNCHANGED <<text_source, files, parseVars, extVars, payVars, genVars>>

\* lines 135-136
SyncWriteCatalog ==
    /\ sync_pc = "WriteCatalog"
    /\ files' = files \cup CatalogFiles
    /\ sync_pc' = "WriteSamples"
    /\ UNCHANGED <<text_source, sync_error, parseVars, extVars, payVars, genVars>>

\* lines 138-141
SyncWriteSamples ==
    /\ sync_pc = "WriteSamples"
    /\ files' = files \cup SampleFiles
    /\ sync_pc' = "DemoScript"
    /\ UNCHANGED <<text_source, sync_error, parseVars, extVars, payVars, genVars>>

\* lines 143-144
SyncDemoScript ==
    /\ sync_pc = "DemoScript"
    /\ LET demo_steps == parse_key_values(parse_sections(text_source)["DEMO_SCRIPT"])
           markdown == demo_steps_to_markdown(demo_steps)
       IN IF markdown.ok
          THEN /\ files' = files \cup DemoFiles
               /\ sync_pc' = "Submission"
               /\ UNCHANGED sync_error
          ELSE /\ sync_error' = markdown.error
               /\ sync_pc' = "Failed"
               /\ UNCHANGED files
    /\ UNCHANGED <<text_source, parseVars, extVars, payVars, genVars>>

\* lines 145-149
SyncSubmissionAndDeck ==
    /\ sync_pc = "Submission"
    /\ files' = files \cup SubmissionFiles \cup DeckFiles
    /\ sync_pc' = "Done"
    /\ UNCHANGED <<text_source, sync_error, parseVars, extVars, payVars, genVars>>

NextSync ==
    \/ SyncRead \/ SyncWriteCatalog \/ SyncWriteSamples
    \/ SyncDemoScript \/ SyncSubmissionAndDeck

SpecSync == InitSync /\ [][NextSync]_vars

\* C16 as stated: when a step of the sync run fails, no catalog, sample,
\* submission or deck file has been written.
C16_AsStated ==
    sync_pc = "Failed" => files = {}

----------------------------------------------------------------------------
(* Claims about the sync run *)

SyncSections == parse_sections(text_source)
MissingNames ==
    LET sections == SyncSections
    IN {name \in Range(REQUIRED_SECTIONS) :
          \/ name \notin DOMAIN sections
          \/ \A i \in DOMAIN sections[name] :
                strip(sections[name][i], Whitespace) = <<>>}
MissingRaised ==
    /\ sync_error.type = "ContentSourceError"
    /\ sync_error.msg.kind = "missing_sections"

\* C21: after the sections are read, the missing-sections error is raised
\* exactly when a required name is absent from the section map or has a
\* blank body; the one error names every such section and no other; with
\* every required section present and filled it is not raised.
C21_NamesEveryMissing ==
    sync_pc # "Read" =>
       LET missing == MissingNames
       IN /\ MissingRaised <=> missing # {}
          /\ MissingRaised =>
                /\ Range(sync_error.msg.names) = missing
                /\ Len(sync_error.msg.names) = Cardinality(missing)

C21_Witness ==
    /\ sync_pc = "Failed"
    /\ MissingRaised
    /\ Len(sync_error.msg.names) = 2
    /\ LET sections == SyncSections
       IN /\ \E name \in MissingNames : name \notin DOMAIN sections
          /\ \E name \in MissingNames : name \in DOMAIN sections

----------------------------------------------------------------------------
(* Claims about key-value blocks *)

\* C22: the text written for a parsed key-value block, parsed and written
\* again, is the same text line for line.
C22_RoundTrip ==
    parsed_section.status = "rebuilt" =>
       /\ parsed_section.again = parsed_section.text
       /\ splitlines(parsed_section.again) = splitlines(parsed_section.text)

C22_Witness ==
    /\ parsed_section.status = "rebuilt"
    /\ Get(parsed_section.value, <<"title">>, <<>>) = <<"b">>
    /\ Get(parsed_section.value, <<"tone">>, <<>>) = <<"a", EQUALS, "b">>
    /\ Len(splitlines(parsed_section.again)) = Len(SAMPLE_INPUT_KEYS)
    /\ splitlines(parsed_section.again)[5] = <<"tone", EQUALS, "a", EQUALS, "b">>

----------------------------------------------------------------------------
(* Claims about the caller of run_generation *)

ClientOrValidationFailure ==
    /\ pc = "Failure"
    /\ outcome.error.type \in {"LLMValidationError", "LLMClientError"}

\* C23 as stated: once the caller has dealt with a call that failed with a
\* client or validation failure, the sample of the selected format is
\* rendered with the mode "mock-fallback"; no failed call ends with an
\* error that leaves the caller.
C23_AsStated ==
    (pc = "Failure" /\ shown.status # "none") =>
        /\ shown.status = "rendered"
        /\ ClientOrValidationFailure => shown.mode = "mock-fallback"

----------------------------------------------------------------------------
(* Claims about the path of run_generation *)

PathEdges ==
    {<<"Idle", "MockPath">>, <<"Idle", "LivePath">>, <<"Idle", "Failure">>,
     <<"MockPath", "Success">>, <<"MockPath", "Failure">>,
     <<"LivePath", "ParseValidate">>, <<"LivePath", "Failure">>,
     <<"ParseValidate", "Success">>, <<"ParseValidate", "RepairDispatch">>,
     <<"RepairDispatch", "RepairParseValidate">>, <<"RepairDispatch", "Failure">>,
     <<"RepairParseValidate", "Success">>, <<"RepairParseValidate", "Failure">>}

\* a step of run_generation moves forward along the path, and nothing of
\* the call changes once it has ended
PathStep ==
    /\ pc' # pc => /\ <<pc, pc'>> \in PathEdges
                   /\ PathRank[pc'] > PathRank[pc]
    /\ Terminal => UNCHANGED <<pc, outcome, requests, genLocals>>
    /\ outcome' # outcome => outcome.status = "none" /\ pc' \in {"Success", "Failure"}

OneOutcome ==
    /\ pc = "Success" <=> outcome.status = "returned"
    /\ pc = "Failure" <=> outcome.status = "raised"
    /\ outcome.status = "returned" => outcome.mode \in {"mock", "llm"}

\* C24: when every model call returns, a call of run_generation ends in
\* one outcome (a mock success, a live success or a failure), each step
\* moves forward on the path Dispatch, MockPath or LivePath, ParseValidate,
\* RepairDispatch, RepairParseValidate, so no step is visited twice, and
\* nothing of the call changes after the outcome.
C24_EndsOnceAlongPath ==
    /\ <>Terminal
    /\ [][PathStep]_vars
    /\ []OneOutcome

\* a call that went through every step of the path, rendered afterwards
C24_Witness ==
    /\ pc = "Success"
    /\ Len(requests) = 2
    /\ first_error # NoError
    /\ shown.status = "rendered"

----------------------------------------------------------------------------
(* Claims about client failures *)

RepairRequests == {i \in DOMAIN requests : requests[i].kind = "repair"}

\* C25: a call whose first live request brought no usable text ends in
\* failure at once, with no repair request and nothing parsed; a call that
\* ends in a client error never parsed a repaired text, and when the repair
\* request brought no text the call ends in failure after that one repair
\* request, the empty text neither parsed nor asked for again.
C25_ClientFailureNotRepaired ==
    /\ (Terminal /\ requests # <<>> /\ ~FirstRawObtained) =>
          /\ pc = "Failure"
          /\ outcome.error.type \in {"LLMClientError", "APIError"}
          /\ RepairRequests = {}
          /\ first_error = NoError /\ second_error = NoError
    /\ (Terminal /\ first_error # NoError /\ ~RepairedRawObtained) =>
          /\ pc = "Failure"
          /\ outcome.error.type \in {"LLMClientError", "APIError"}
          /\ RepairRequests = {2} /\ Len(requests) = 2
          /\ second_error = NoError
    /\ (pc = "Failure" /\ outcome.error.type = "LLMClientError") =>
          /\ second_error = NoError
          /\ ~FirstRawObtained => RepairRequests = {}

\* the first reply held no text at all
C25_Witness ==
    /\ pc = "Failure"
    /\ outcome.error = LLMClientError([kind |-> "empty_reply"])
    /\ Len(requests) = 1
    /\ requests[1].kind = "generate"

----------------------------------------------------------------------------
(* Claims about live successes *)

\* C26: a success that followed a request is tagged "llm" and carries the
\* raw text whose extraction and validation gave the response: the first
\* raw text when the first round passed, and the repaired text, which is
\* not the rejected first text, when the repair round passed; a repair
\* request holds the first round's failure description and the first raw
\* text.
C26_LiveSuccessCarriesItsText ==
    /\ (pc = "Success" /\ requests # <<>>) =>
          /\ outcome.mode = "llm"
          /\ parse_and_validate(outcome.raw_text).ok
          /\ outcome.response = parse_and_validate(outcome.raw_text).value
          /\ IF first_error = NoError
             THEN outcome.raw_text = raw_text /\ Len(requests) = 1
             ELSE /\ outcome.raw_text = repaired_raw
                  /\ outcome.raw_text # raw_text
                  /\ ~parse_and_validate(raw_text).ok
    /\ \A i \in RepairRequests :
          /\ requests[i].raw_text = raw_text
          /\ requests[i].validation_error = parse_and_validate(raw_text).error.msg
          /\ requests[i].validation_error = first_error.msg

\* the repaired text passed after the first text was rejected
C26_Witness ==
    /\ pc = "Success"
    /\ outcome.mode = "llm"
    /\ RepairRequests = {2}
    /\ outcome.raw_text = repaired_raw
    /\ requests[2].raw_text = raw_text
    /\ requests[2].validation_error.kind = "no_json_object"

----------------------------------------------------------------------------
(* Claims about extraction failures *)

NoJsonObject == LLMValidationError([kind |-> "no_json_object"])
IncompleteJson == LLMValidationError([kind |-> "incomplete_json"])

\* the extractor, run alone: which texts fail, and how
ExtractionFailures ==
    extracted.status = "done" =>
       /\ (~extracted.ok /\ extracted.error = NoJsonObject)
             <=> (/\ ~json_loads(ScannedText).ok
                  /\ \A i \in DOMAIN ScannedText : ScannedText[i] # LBRACE)
       /\ (~extracted.ok /\ extracted.error = IncompleteJson)
             <=> (Scanned /\ Closers(ScannedText, ScanStart) = {})
       /\ ~extracted.ok =>
             /\ extracted.text = <<>>
             /\ extracted.error \in {NoJsonObject, IncompleteJson}

\* run_generation: the first round's extraction failure is the first error
\* and the repair request follows it
ExtractionFailureRepaired ==
    /\ (FirstRawObtained /\ pc # "ParseValidate"
          /\ ~_extract_first_json_object(raw_text).ok) =>
          first_error = _extract_first_json_object(raw_text).error
    /\ first_error \in {NoJsonObject, IncompleteJson} =>
          /\ pc \in {"RepairDispatch", "RepairParseValidate", "Success", "Failure"}
          /\ pc # "RepairDispatch" => RepairRequests = {2}
          /\ pc = "Success" => outcome.raw_text = repaired_raw

\* C27: on the trimmed, unfenced text the extractor raises the "no JSON
\* object" error exactly when the text is not valid JSON as a whole and holds
\* no {, and the "incomplete JSON" error exactly when the scan it then makes
\* from the first { ends without the depth back at zero; it returns nothing
\* in either case, and in run_generation either error of the first round is
\* followed by the repair request.
C27_ExtractionErrors == ExtractionFailures /\ ExtractionFailureRepaired

\* an object never closed was sent to repair
C27_Witness ==
    /\ pc = "RepairParseValidate"
    /\ raw_text = <<LBRACE, "J1">>
    /\ first_error = IncompleteJson
    /\ requests[2].validation_error = [kind |-> "incomplete_json"]

----------------------------------------------------------------------------
(* Claims about the section splitter, stated on the lines of the text *)

SplitDone == section_kind = "sections" /\ parsed_section.status = "done"
TagAt(i) == section_name(section_text[i])
TagLines == {i \in DOMAIN section_text : TagAt(i) # ""}
TaggedNames == {TagAt(i) : i \in TagLines}
LastTag(name) ==
    CHOOSE i \in TagLines :
        TagAt(i) = name /\ \A k \in TagLines : TagAt(k) = name => k <= i
\* the lines after the last tag line of the name, up to the next tag line
BodyLines(name) ==
    LET first == LastTag(name) + 1
        later == {k \in TagLines : k >= first}
        last == IF later = {} THEN Len(section_text) ELSE Least(later) - 1
    IN SubSeq(section_text, first, last)

\* a body without the blank lines at either end, the first line left of
\* them trimmed on its left and the last one on its right
Trimmed(body) ==
    LET filled == {i \in DOMAIN body : strip(body[i], Whitespace) # <<>>}
        lo == Least(filled)
        hi == CHOOSE i \in filled : \A k \in filled : k <= i
    IN IF filled = {} THEN <<>>
       ELSE [k \in 1..(hi - lo + 1) |->
               LET line == body[lo + k - 1]
               IN IF lo = hi THEN strip(line, Whitespace)
                  ELSE IF k = 1 THEN lstrip(line, Whitespace)
                  ELSE IF k = hi - lo + 1 THEN rstrip(line, Whitespace)
                  ELSE line]

\* C28 as stated: the map has the names of the tag lines for keys, and
\* each is mapped to the lines that follow the last occurrence of its tag
\* line up to the next tag line or the end.
C28_AsStated ==
    SplitDone =>
       /\ DOMAIN parsed_section.value = TaggedNames
       /\ \A name \in TaggedNames :
             parsed_section.value[name] = BodyLines(name)

\* C28 amended: each name is mapped to those lines trimmed: without the
\* blank lines at either end and without the whitespace before the first
\* and after the last character left; the body after an earlier occurrence
\* of the tag and the lines before the first tag are in no body, and a text
\* without a tag line gives the empty map.
C28_LastBodyTrimmed ==
    SplitDone =>
       /\ DOMAIN parsed_section.value = TaggedNames
       /\ \A name \in TaggedNames :
             parsed_section.value[name] = Trimmed(BodyLines(name))
       /\ TagLines = {} => parsed_section.value = EmptyDict

\* a tag with a body, then the tag again with another body
C28_Witness ==
    /\ SplitDone
    /\ section_text = <<<<"[", "PROJECT_META", "]">>, <<"b">>,
                        <<SPACE, "[", "PROJECT_META", "]", SPACE>>, <<SPACE, "a", SPACE>>>>
    /\ parsed_section.value = [n \in {"PROJECT_META"} |-> <<<<"a">>>>]

\* ---------------------------------------------------------------------
\* Claims about the key-value parser
\* ---------------------------------------------------------------------

KvDone ==
    section_kind = "key_values" /\ parsed_section.status # "pending"

KvStripped(i) == strip(section_text[i], Whitespace)

KvHasEquals(i) == \E k \in DOMAIN KvStripped(i) : KvStripped(i)[k] = EQUALS

\* the line is neither blank, nor a comment, nor without "="
KvRead(i) ==
    /\ KvStripped(i) # <<>>
    /\ KvStripped(i)[1] # HASH
    /\ KvHasEquals(i)

KvFirstEquals(i) ==
    CHOOSE k \in DOMAIN KvStripped(i) :
        /\ KvStripped(i)[k] = EQUALS
        /\ \A j \in 1..(k - 1) : KvStripped(i)[j] # EQUALS

KvKey(i) == strip(SubSeq(KvStripped(i), 1, KvFirstEquals(i) - 1), Whitespace)

KvValue(i) ==
    strip(SubSeq(KvStripped(i), KvFirstEquals(i) + 1, Len(KvStripped(i))),
          Whitespace)

KvReadLines == {i \in DOMAIN section_text : KvRead(i)}

KvLast(key) ==
    CHOOSE i \in KvReadLines :
        /\ KvKey(i) = key
        /\ \A j \in KvReadLines : KvKey(j) = key => j <= i

\* C29: the key-value parser never fails; its result holds exactly the keys
\* of the lines that are neither blank, nor comments, nor without "=", each
\* line split at its first "=" with both sides trimmed, and every key
\* carries the value of the last line that names it.
C29_LastOccurrenceOfFirstSplit ==
    KvDone =>
        /\ parsed_section.status = "done" => parsed_section.ok
        /\ DOMAIN parsed_section.value = {KvKey(i) : i \in KvReadLines}
        /\ \A key \in DOMAIN parsed_section.value :
              parsed_section.value[key] = KvValue(KvLast(key))

\* a block with a skipped line, a value that holds "=", and a key named on
\* two lines with different values
C29_Witness ==
    /\ KvDone
    /\ \E i \in DOMAIN section_text : ~KvRead(i)
    /\ \E i \in KvReadLines : \E k \in DOMAIN KvValue(i) : KvValue(i)[k] = EQUALS
    /\ \E i, j \in KvReadLines :
          i < j /\ KvKey(i) = KvKey(j) /\ KvValue(i) # KvValue(j)

\* ---------------------------------------------------------------------
\* Claims about the constraints of the fields
\* ---------------------------------------------------------------------

RequestedVariants == payload.input_echo.variants_per_segment

VariantsOutOfRange == RequestedVariants < 1 \/ RequestedVariants > 3

ToneNotAllowed ==
    payload.input_echo.tone \notin {"friendly", "neutral", "formal", "bold"}

PriorityNotAllowed ==
    \E i \in DOMAIN payload.questions :
        payload.questions[i].priority \notin {"P0", "P1", "P2"}

DigitGroup(s) == s # <<>> /\ \A i \in DOMAIN s : s[i] \in Digits

TwoDigitGroups(v) ==
    \E n \in 1..Len(v) :
        /\ v[n] = "."
        /\ DigitGroup(SubSeq(v, 1, n - 1))
        /\ DigitGroup(SubSeq(v, n + 1, Len(v)))

\* every constraint but the range of the requested count is met
ValidButForRange ==
    /\ ~ToneNotAllowed /\ ~PriorityNotAllowed
    /\ TwoDigitGroups(payload.version)
    /\ "format_id" \in DOMAIN payload.input_echo
    /\ \A i \in DOMAIN payload.segments :
          /\ Len(payload.segments[i].copies) = RequestedVariants
          /\ \A n \in DOMAIN payload.segments[i].copies :
                /\ payload.segments[i].copies[n].char_count.headline >= 0
                /\ payload.segments[i].copies[n].char_count.body >= 0

\* C30: the schema validator rejects a payload whose requested variant
\* count is outside 1..3, whose tone is not one of the four allowed values,
\* one of whose questions has a priority other than P0, P1 and P2, or whose
\* version is not two digit groups separated by a dot; it accepts the
\* requested counts 1 and 3 when everything else is valid.
C30_FieldConstraints ==
    ValidateDone =>
        /\ (\/ VariantsOutOfRange \/ ToneNotAllowed \/ PriorityNotAllowed
            \/ ~TwoDigitGroups(payload.version)) => ~validated.ok
        /\ (RequestedVariants \in {1, 3} /\ ValidButForRange) => validated.ok

\* three copies requested and supplied in a segment, accepted
C30_Witness ==
    /\ ValidateDone /\ validated.ok
    /\ RequestedVariants = 3
    /\ payload.segments # <<>>

\* ---------------------------------------------------------------------
\* Claims about the segments of an accepted response
\* ---------------------------------------------------------------------

\* C31: every response accepted by the schema validator contains one or
\* more segment outputs, that is, a payload whose segments list is empty
\* is rejected.
C31_AsStated ==
    (ValidateDone /\ validated.ok) => validated.value.segments # <<>>

\* ---------------------------------------------------------------------
\* Claims about the numbers of the slide records
\* ---------------------------------------------------------------------

\* C32: every slide record the slide parser emits carries as its number the
\* integer of a marker line, whatever key=value lines follow the marker, a
\* line whose key is "number" included, so the final sort compares integers
\* and does not fail.
C32_AsStated ==
    (ParseDone("slides") /\ \A m \in Markers : MarkerNumber(m).ok) =>
        /\ parsed_section.ok
        /\ \A i \in DOMAIN parsed_section.value :
              \E m \in Markers :
                  parsed_section.value[i][NUMBER] = IntVal(MarkerNumber(m).value)

\* ---------------------------------------------------------------------
\* Claims about an open keyword met while a record is open
\* ---------------------------------------------------------------------

\* the record closed at line end was opened while an earlier one was open
Reopened(end) == OpenerAt(OpenerAt(end)) > 0

\* the lines buffered for the earlier record, which no END line closed
AbandonedLines(end) ==
    Buffered(OpenerAt(OpenerAt(end)) + 1, OpenerAt(end) - 1)

\* C33: in the segment and format parsers an open keyword met while a
\* record is open restarts the buffer: the record emitted at the next END
\* line is built only from the lines after the most recent open keyword,
\* and the lines buffered for the earlier record add no record.
C33_ReopenRestartsBuffer ==
    (section_kind \in {"segments", "formats"}
        /\ parsed_section.status = "done" /\ parsed_section.ok) =>
        \A end \in ClosingEnds :
            Reopened(end) =>
                /\ Len(parsed_section.value) = Cardinality(ClosingEnds)
                /\ parsed_section.value[EndRank(end)] =
                      IF section_kind = "segments"
                      THEN segment_record(RecordLines(end))
                      ELSE format_record(RecordLines(end)).value

\* SEGMENT, id=a, SEGMENT, END: the one record has no id
C33_Witness ==
    /\ ParseDone("segments")
    /\ \E end \in ClosingEnds :
          /\ Reopened(end)
          /\ AbandonedLines(end) # <<>>
          /\ parsed_section.value[EndRank(end)]
                # segment_record(AbandonedLines(end) \o RecordLines(end))

\* ---------------------------------------------------------------------
\* Claims about what the enforcer leaves alone
\* ---------------------------------------------------------------------

PrefixOf(part, whole) ==
    Len(part) <= Len(whole) /\ SubSeq(whole, 1, Len(part)) = part

\* the copy at place keeps its call-to-action, its rationale and the flags
\* it had, in their order, with at most one flag after them
CopyFrameKept(place) ==
    LET given == CopyAt(payload, place)
        result == CopyAt(enforced.value, place)
    IN /\ result.cta = given.cta
       /\ result.rationale = given.rationale
       /\ PrefixOf(Flags(given), Flags(result))
       /\ Len(Flags(result)) <= Len(Flags(given)) + 1

\* the copy at place has prefixes of the texts it had, and the very texts
\* where they were within the limit
CopyOnlyShortened(place) ==
    LET given == CopyAt(payload, place)
        result == CopyAt(enforced.value, place)
    IN /\ PrefixOf(result.headline, given.headline)
       /\ PrefixOf(result.body, given.body)
       /\ (~HasLimits \/ Len(given.headline) <= Limits.headline_max)
             => result.headline = given.headline
       /\ (~HasLimits \/ Len(given.body) <= Limits.body_max)
             => result.body = given.body

\* C34: the format-limit enforcer only shortens: every headline and body of
\* its result is a prefix of the text given, a text within its limit is
\* unchanged, the segments and their copies are those given, in their
\* order, no call-to-action or rationale changes, and the risk flags
\* already present stay in place, a new flag coming after them.
C34_OnlyShortens ==
    EnforceDone =>
        /\ Len(enforced.value.segments) = Len(payload.segments)
        /\ \A i \in DOMAIN payload.segments :
              /\ enforced.value.segments[i].segment_id
                    = payload.segments[i].segment_id
              /\ Len(enforced.value.segments[i].copies)
                    = Len(payload.segments[i].copies)
        /\ \A place \in CopyPlaces(payload) :
              CopyOnlyShortened(place) /\ CopyFrameKept(place)

\* a copy that had a flag and a text over the limit: the text is cut and
\* the new flag follows the old one
C34_Witness ==
    /\ EnforceDone /\ HasLimits
    /\ \E place \in CopyPlaces(payload) :
          /\ Flags(CopyAt(payload, place)) # <<>>
          /\ Len(CopyAt(enforced.value, place).body)
                < Len(CopyAt(payload, place).body)
          /\ Len(Flags(CopyAt(enforced.value, place)))
                = Len(Flags(CopyAt(payload, place))) + 1

====
